---- MODULE Spec2Model ----
(***************************************************************************)
(* A model of vibestick: the button grid and its controller                *)
(* (button_manager.py, streamdeck_controller.py), the action router        *)
(* (command_executor.py), the shortcut parser (keyboard_parser.py) and the *)
(* configuration watcher (config_watcher.py).                              *)
(*                                                                         *)
(* Python's None is the string "None" for the optional string fields, and  *)
(* an Optional[int] is a sequence of length at most one.  Button.label and *)
(* Button.image_path only feed the image renderer and are left out; the    *)
(* renderer (_update_button_image / _update_all_buttons) reads the grid    *)
(* and writes only the device.                                             *)
(***************************************************************************)
EXTENDS Integers, Sequences, FiniteSets, Bags, TLC

VARIABLES
    rows, columns,        \* ButtonManager.rows / .columns
    buttons,              \* ButtonManager.buttons : index -> Button
    current_mode,         \* ButtonManager.current_mode
    current_computer,     \* ButtonManager.current_computer
    selected_button,      \* ButtonManager.selected_button (Optional[int])
    config,               \* StreamDeckController.config (the loaded ConfigLoader)
    phase,                \* "constructed" until main() has called setup_buttons
    workers,              \* in-flight _execute_and_restore threads (a bag)
    detached,             \* Button objects no longer in the map but held by a worker
    done,                 \* the last worker that ended (observation only)
    ex,                   \* the last CommandExecutor.execute_action call and its outcome
    disk,                 \* the *.json files of the configuration directory
    file_times,           \* ConfigWatcher._file_times
    watch,                \* the last step of the watcher (observation only)
    watcher               \* ConfigWatcher._running, ._thread, .callbacks and its live loops

vars == <<rows, columns, buttons, current_mode, current_computer, selected_button,
          config, phase, workers, detached, done, ex, disk, file_times, watch, watcher>>

gridVars == <<rows, columns, buttons, current_mode, current_computer, selected_button,
              config, phase, workers, detached, done>>
execVars == <<ex>>
watchVars == <<disk, file_times, watch, watcher>>

None == "None"

(***************************************************************************)
(* Bounds                                                                  *)
(***************************************************************************)
MaxWorkers == 1

(***************************************************************************)
(* button_manager.py                                                       *)
(***************************************************************************)
NORMAL == "normal"
SELECTED == "selected"
PRESSED == "pressed"
ButtonState == {NORMAL, SELECTED, PRESSED}

\* dataclass Button: the constructor leaves state at ButtonState.NORMAL
Button(index, row, column, mode, action, computer) ==
    [index |-> index, row |-> row, column |-> column, mode |-> mode,
     action |-> action, state |-> NORMAL, computer |-> computer]

\* ButtonManager.__init__(rows=3, columns=5), the layout of the device
DefaultRows == 3
DefaultColumns == 5

IndexToPosition(index, cols) == <<index \div cols, index % cols>>

PositionToIndex(row, column, cols) == row * cols + column

\* buttons[index] = b (a dict assignment: the key is added when absent)
Store(bs, index, b) ==
    [i \in (DOMAIN bs) \cup {index} |-> IF i = index THEN b ELSE bs[i]]

\* The grid as one value: the ButtonManager's fields; in `gone` the Button
\* objects a handler replaced in the map by new ones, index -> the state the
\* replaced object was left in (object identity: a worker keeps its own).
Grid == [rows |-> rows, columns |-> columns, buttons |-> buttons,
         current_mode |-> current_mode, current_computer |-> current_computer,
         selected_button |-> selected_button, gone |-> <<>>]

TotalButtons(g) == g.rows * g.columns

\* ButtonManager.__init__
NewButtonManager(r, c) ==
    [rows |-> r, columns |-> c,
     buttons |-> [i \in 0 .. (r * c - 1) |->
                    Button(i, IndexToPosition(i, c)[1], IndexToPosition(i, c)[2],
                           None, None, None)],
     current_mode |-> "terminal", current_computer |-> "laptop",
     selected_button |-> <<>>, gone |-> <<>>]

\* a button definition of the configuration: position may lack row or column
HasPosition(d) == "row" \in DOMAIN d.position /\ "column" \in DOMAIN d.position

\* buttons[index] = Button(...): a new object takes the place of the old one
Replace(g, index, b) ==
    [g EXCEPT !.buttons = Store(@, index, b),
              !.gone = IF index \in DOMAIN g.gone \/ index \notin DOMAIN g.buttons THEN @
                       ELSE [i \in (DOMAIN @) \cup {index} |->
                               IF i = index THEN g.buttons[index].state ELSE @[i]]]

RECURSIVE SetupFixedFrom(_, _, _, _)
SetupFixedFrom(g, defs, computer, k) ==
    IF k > Len(defs) THEN g
    ELSE LET d == defs[k] IN
         IF ~HasPosition(d) THEN SetupFixedFrom(g, defs, computer, k + 1)
         ELSE LET row == d.position.row
                  col == d.position.column
                  index == PositionToIndex(row, col, g.columns)
              IN IF 0 <= index /\ index < TotalButtons(g)
                 THEN SetupFixedFrom(
                        Replace(g, index, Button(index, row, col, d.mode, d.action, computer)),
                        defs, computer, k + 1)
                 ELSE SetupFixedFrom(g, defs, computer, k + 1)

\* ButtonManager.setup_fixed_buttons (side is not read by the code)
SetupFixedButtons(g, side, defs, computer) == SetupFixedFrom(g, defs, computer, 1)

CenterFirst == 1
CenterLast == 3

\* the clearing loop of setup_center_buttons: rows x columns 1..3, no range check
RECURSIVE ClearCenterFrom(_, _)
ClearCenterFrom(g, n) ==
    IF n >= g.rows * (CenterLast - CenterFirst + 1) THEN g
    ELSE LET row == n \div (CenterLast - CenterFirst + 1)
             col == CenterFirst + (n % (CenterLast - CenterFirst + 1))
             index == PositionToIndex(row, col, g.columns)
         IN ClearCenterFrom(
              Replace(g, index, Button(index, row, col, None, None, None)),
              n + 1)

RECURSIVE FillCenterFrom(_, _, _, _)
FillCenterFrom(g, defs, mode, k) ==
    IF k > Len(defs) THEN g
    ELSE LET d == defs[k] IN
         IF ~HasPosition(d) THEN FillCenterFrom(g, defs, mode, k + 1)
         ELSE LET row == d.position.row
                  col == d.position.column
                  index == PositionToIndex(row, col, g.columns)
              IN IF CenterFirst <= col /\ col <= CenterLast
                    /\ 0 <= index /\ index < TotalButtons(g)
                 THEN FillCenterFrom(
                        Replace(g, index, Button(index, row, col, mode, d.action,
                                                 g.current_computer)),
                        defs, mode, k + 1)
                 ELSE FillCenterFrom(g, defs, mode, k + 1)

\* ButtonManager.setup_center_buttons
SetupCenterButtons(g, defs, mode) ==
    FillCenterFrom(ClearCenterFrom(g, 0), defs, mode, 1)

\* a faulty variant: the previous selection is left as it is
ClearNothing(g) == g

\* set_selected_button, first half: clear the previous selection
ClearPreviousSelection(g) ==
    IF g.selected_button # <<>> /\ g.selected_button[1] \in DOMAIN g.buttons
    THEN [g EXCEPT !.buttons[g.selected_button[1]].state = NORMAL]
    ELSE g

\* set_selected_button, second half: record and mark the new selection
MarkSelection(g, index) ==
    LET h == [g EXCEPT !.selected_button = index] IN
    IF index # <<>> /\ index[1] \in DOMAIN h.buttons
    THEN [h EXCEPT !.buttons[index[1]].state = SELECTED]
    ELSE h

SelectedIndices(bs) == {i \in DOMAIN bs : bs[i].state = SELECTED}

\* ButtonManager.set_selected_button(index), index an Optional[int]
SetSelectedButton(g, index) == MarkSelection(ClearPreviousSelection(g), index)

FixedColumns == {0, 4}

\* a faulty variant: every button with a mode tag switches, whatever its column
IsModeSwitchAnyColumn(b) == b.mode # None

\* `button.column in [0, 4] and button.mode`
IsModeSwitch(b) == b.column \in FixedColumns /\ b.mode # None

\* the computer press_button switches to for a column
ComputerOfColumn(column) == IF column = 0 THEN "laptop" ELSE "desktop"

\* ButtonManager.press_button(index) for an index of the map: the grid after it
PressButton(g, index) ==
    LET button == g.buttons[index] IN
    IF IsModeSwitch(button)
    THEN SetSelectedButton(
            [g EXCEPT !.current_mode = button.mode,
                      !.current_computer = ComputerOfColumn(button.column)],
            <<index>>)
    ELSE g

(***************************************************************************)
(* config_loader.py: the loaded configuration documents                    *)
(***************************************************************************)
Def(row, column, mode, action) ==
    [position |-> [row |-> row, column |-> column], mode |-> mode, action |-> action]

\* a definition whose position lacks the column
DefNoColumn(row, mode, action) ==
    [position |-> [row |-> row], mode |-> mode, action |-> action]

TerminalDoc == << Def(0, 1, None, "key_a"), Def(0, 0, None, "cmd_x"),
                  DefNoColumn(0, None, "cmd_x") >>
ForkDoc == << Def(0, 2, None, "cmd_b") >>
ForkDoc2 == << Def(0, 3, None, "cmd_x") >>

CfgA == [computers |-> [k \in {"laptop", "desktop"} |->
                          IF k = "laptop" THEN "localhost" ELSE "deskhost"],
         left |-> [computer |-> "laptop",
                   buttons |-> << Def(0, 0, "terminal", "app_term"),
                                  Def(1, 0, None, "cmd_x") >>],
         right |-> [computer |-> "desktop",
                    buttons |-> << Def(0, 4, "fork", "app_fork"),
                                   DefNoColumn(1, "fork", None) >>],
         defaultMode |-> "terminal", defaultComputer |-> "laptop",
         modes |-> [m \in {"terminal", "fork"} |->
                      IF m = "terminal" THEN TerminalDoc ELSE ForkDoc]]

\* an edited overview with other computer keys, a mode without a document
\* and a position outside the grid; an edited fork document
CfgB == [computers |-> [k \in {"mac", "pc"} |->
                          IF k = "mac" THEN "localhost" ELSE "pchost"],
         left |-> [computer |-> "mac",
                   buttons |-> << Def(0, 0, "fork", None) >>],
         right |-> [computer |-> "pc",
                    buttons |-> << Def(0, 4, "simulator", "app_term"),
                                   Def(3, 4, "terminal", "app_term") >>],
         defaultMode |-> "fork", defaultComputer |-> "mac",
         modes |-> [m \in {"terminal", "fork"} |->
                      IF m = "terminal" THEN TerminalDoc ELSE ForkDoc2]]

Configs == {CfgA, CfgB}

\* ConfigLoader.get_mode_buttons: raises ValueError for an unknown mode
ModeKnown(cfg, mode) == mode \in DOMAIN cfg.modes
GetModeButtons(cfg, mode) == cfg.modes[mode]

\* ConfigLoader.get_computer_config: raises ValueError for an unknown key
ComputerKnown(cfg, key) == key \in DOMAIN cfg.computers
GetComputerConfig(cfg, key) == [hostname |-> cfg.computers[key]]

GetFixedButtons(cfg, side) == IF side = "left" THEN cfg.left.buttons ELSE cfg.right.buttons
SideComputer(cfg, side) == IF side = "left" THEN cfg.left.computer ELSE cfg.right.computer

(***************************************************************************)
(* streamdeck_controller.py                                                *)
(***************************************************************************)
\* StreamDeckController._update_center_buttons: a ValueError of
\* get_mode_buttons is caught and the center buttons stay as they are
UpdateCenterButtons(g, cfg) ==
    IF ModeKnown(cfg, g.current_mode)
    THEN SetupCenterButtons(g, GetModeButtons(cfg, g.current_mode), g.current_mode)
    ELSE g

\* the condition of _set_initial_selection's loop
MatchesInitial(b, mode, computer) ==
    /\ b.mode = mode
    /\ b.column \in FixedColumns
    /\ \/ (computer = "laptop" /\ b.column = 0)
       \/ (computer = "desktop" /\ b.column = 4)

\* StreamDeckController._set_initial_selection: the first match in index
\* order (get_all_buttons lists range(total_buttons)) is selected
SetInitialSelection(g) ==
    LET hits == {i \in 0 .. (TotalButtons(g) - 1) :
                    MatchesInitial(g.buttons[i], g.current_mode, g.current_computer)}
    IN IF hits = {} THEN g
       ELSE SetSelectedButton(g, <<CHOOSE i \in hits : \A j \in hits : i <= j>>)

\* StreamDeckController.setup_buttons
SetupButtons(g, cfg) ==
    LET g1 == SetupFixedButtons(g, "left", GetFixedButtons(cfg, "left"),
                                SideComputer(cfg, "left"))
        g2 == SetupFixedButtons(g1, "right", GetFixedButtons(cfg, "right"),
                                SideComputer(cfg, "right"))
    IN SetInitialSelection(UpdateCenterButtons(g2, cfg))

ModeFile(mode) == mode \o "-mode.json"

\* StreamDeckController._on_config_changed, after self.config was replaced by cfg
OnConfigChanged(g, cfg, files_changed) ==
    IF ModeFile(g.current_mode) \in files_changed THEN UpdateCenterButtons(g, cfg)
    ELSE IF "overview.json" \in files_changed THEN SetupButtons(g, cfg)
    ELSE g

(***************************************************************************)
(* Worker threads and Button object identity                               *)
(*                                                                         *)
(* workers is the bag of threads in flight, each with the arguments it was *)
(* started with.  A worker holds a reference to the Button object it was   *)
(* given: ref = 0 says that object is still buttons[key]; otherwise the    *)
(* object was replaced in the map and lives on as detached[ref].           *)
(***************************************************************************)
LiveRefs(ws) == {w.ref : w \in BagToSet(ws)} \ {0}
RankIn(S, x) == Cardinality({y \in S : y <= x})
NthOf(S, n) == CHOOSE x \in S : RankIn(S, x) = n

\* the workers and the detached objects after a handler replaced the objects
\* of the indices DOMAIN gone
Detach(ws, det, gone) ==
    LET hit(w) == w.ref = 0 /\ w.key \in DOMAIN gone
        keys == {w.key : w \in {v \in BagToSet(ws) : hit(v)}}
        free == (1 .. BagCardinality(ws)) \ LiveRefs(ws)
        idOf(k) == NthOf(free, RankIn(keys, k))
        moved(w) == IF hit(w) THEN [w EXCEPT !.ref = idOf(w.key)] ELSE w
    IN [workers |-> [v \in {moved(w) : w \in BagToSet(ws)} |->
                       ws[CHOOSE w \in BagToSet(ws) : moved(w) = v]],
        detached |-> [d \in (DOMAIN det) \cup {idOf(k) : k \in keys} |->
                        IF d \in DOMAIN det THEN det[d]
                        ELSE gone[CHOOSE k \in keys : idOf(k) = d]]]

\* the state of the Button object a worker holds
ObjectState(bs, det, w) == IF w.ref = 0 THEN bs[w.key].state ELSE det[w.ref]

\* the grid value g becomes the state, with ws the threads in flight; the
\* workers of replaced objects keep theirs
InstallWith(g, ws) ==
    \E d \in {Detach(ws, detached, g.gone)} :
       /\ buttons' = g.buttons
       /\ current_mode' = g.current_mode
       /\ current_computer' = g.current_computer
       /\ selected_button' = g.selected_button
       /\ workers' = d.workers
       /\ detached' = d.detached
       /\ UNCHANGED <<rows, columns>>

Install(g) == InstallWith(g, workers)

Outcomes == {"ok", "false", "raised"}

\* main(): controller.setup_buttons() after construction and connect()
SetupButtonsStep ==
    /\ phase = "constructed"
    /\ \E g \in {SetupButtons(Grid, config)} : Install(g)
    /\ phase' = "running"
    /\ UNCHANGED <<config, done, ex, disk, file_times, watch, watcher>>

\* the arguments of the thread _key_change_callback starts for an action
\* button: (button, computer, computer_config, key); button is the object
\* buttons[key], whose action the worker reads
WorkerArgs(g, cfg, key) ==
    [key |-> key, action |-> g.buttons[key].action, computer |-> g.current_computer,
     cc |-> GetComputerConfig(cfg, g.current_computer), ref |-> 0]

\* a faulty variant: the worker reads the session and the map when it runs
WorkerExecPairCurrent(w) ==
    <<current_computer,
      IF w.key \in DOMAIN buttons THEN buttons[w.key].action ELSE None>>

\* what a worker passes to execute_action: its own arguments
WorkerExecPair(w) == <<w.computer, w.action>>

\* a faulty variant: no finally block: an exception ends the thread at once
AfterExecuteNoFinally(outcome) ==
    IF outcome = "raised" THEN [restore |-> FALSE, escaped |-> TRUE]
    ELSE [restore |-> TRUE, escaped |-> FALSE]

\* the try/except/finally of _execute_and_restore: whatever execute_action
\* did, the finally block runs and nothing escapes the thread
AfterExecute(outcome) == [restore |-> TRUE, escaped |-> FALSE]

\* `button.state = ButtonState.NORMAL` in the finally block
RestoredState == NORMAL

\* a faulty variant: a release is handled like a press
NeverRelease(pressed) == FALSE

\* `if not state: return`
IsRelease(pressed) == ~pressed

\* what the callback does to the grid and the workers, with at most `limit`
\* threads in flight
HandleKeyUpTo(key, pressed, limit) ==
    /\ phase = "running"
    /\ IF IsRelease(pressed) \/ key \notin DOMAIN buttons
       THEN UNCHANGED <<rows, columns, buttons, current_mode, current_computer,
                        selected_button, workers, detached>>
       ELSE \E g \in {PressButton(Grid, key)} :
            LET button == g.buttons[key] IN
            IF IsModeSwitch(button)
            THEN \* mode switch: rebuild the center; the action runs inline
                 Install(UpdateCenterButtons(g, config))
            ELSE IF button.action # None /\ ComputerKnown(config, g.current_computer)
            THEN \* action button: show it pressed and start a worker
                 /\ BagCardinality(workers) < limit
                 /\ InstallWith([g EXCEPT !.buttons[key].state = PRESSED],
                                workers (+) SetToBag({WorkerArgs(g, config, key) @@
                                    [snap |-> <<current_computer, buttons[key].action>>]}))
            ELSE \* no action, or get_computer_config raised out of the callback
                 Install(g)

HandleKey(key, pressed) == HandleKeyUpTo(key, pressed, MaxWorkers)

\* _key_change_callback(deck, key, state)
KeyChange(key, pressed) ==
    /\ HandleKey(key, pressed)
    /\ UNCHANGED <<config, phase, done, ex, disk, file_times, watch, watcher>>

\* _execute_and_restore: execute_action and the sleep, then the finally block
\* and the end of the thread
WorkerRun(w, outcome) ==
    /\ w \in BagToSet(workers)
    /\ LET a == AfterExecute(outcome)
           bs == IF a.restore /\ w.ref = 0
                 THEN [buttons EXCEPT ![w.key].state = RestoredState] ELSE buttons
           det == IF a.restore /\ w.ref # 0
                  THEN [detached EXCEPT ![w.ref] = RestoredState] ELSE detached
           rest == workers (-) SetToBag({w})
       IN /\ buttons' = bs
          /\ workers' = rest
          /\ detached' = [d \in (DOMAIN det) \cap LiveRefs(rest) |-> det[d]]
          /\ done' = [ended |-> TRUE, raised |-> (outcome = "raised"),
                      state |-> ObjectState(bs, det, w), escaped |-> a.escaped]
    /\ UNCHANGED <<rows, columns, current_mode, current_computer, selected_button,
                   config, phase, ex, disk, file_times, watch, watcher>>

ChangedSets ==
    {{"overview.json"}, {"computers.json"}, {"terminal-mode.json"}, {"fork-mode.json"},
     {"overview.json", "fork-mode.json"}, {"overview.json", "computers.json"}}

\* the watcher thread calls _on_config_changed(changed_files): the configuration
\* is loaded anew from the directory (cfg is what is there now), then the grid
\* is rebuilt for the file names reported
ConfigChanged(cfg, files_changed) ==
    /\ phase = "running"
    /\ config' = cfg
    /\ \E g \in {OnConfigChanged(Grid, cfg, files_changed)} : Install(g)
    /\ UNCHANGED <<phase, done, ex, disk, file_times, watch, watcher>>

ExecIdle == [op |-> "idle"]
WatchIdle == [op |-> "idle"]

\* the callbacks registered with add_callback: the controller's
Callbacks == {"_on_config_changed"}

\* ConfigWatcher.__init__, and the add_callback of the controller's constructor
NewWatcher == [running |-> FALSE, thread |-> <<>>, loops |-> 0, callbacks |-> Callbacks]

\* the configuration directory when the watcher is constructed, and the
\* modification times its constructor records (_update_file_times)
File(mtime, content) == [mtime |-> mtime, content |-> content]
InitialDisk == [f \in {"overview.json", "fork-mode.json"} |-> File(1, "valid")]
FileTimes(d) == [f \in DOMAIN d |-> d[f].mtime]
NotDone == [ended |-> FALSE, raised |-> FALSE, state |-> NORMAL, escaped |-> FALSE]

\* the state after StreamDeckController.__init__
InitGrid ==
    /\ rows = DefaultRows
    /\ columns = DefaultColumns
    /\ config \in Configs
    /\ \E g \in {NewButtonManager(rows, columns)} :
       /\ buttons = g.buttons
       /\ selected_button = g.selected_button
    /\ current_mode = config.defaultMode
    /\ current_computer = config.defaultComputer
    /\ phase = "constructed"
    /\ workers = EmptyBag
    /\ detached = <<>>
    /\ done = NotDone

Init ==
    /\ InitGrid
    /\ ex = ExecIdle
    /\ disk = InitialDisk
    /\ file_times = FileTimes(disk)
    /\ watcher = NewWatcher
    /\ watch = WatchIdle

\* the keys of the device and one index outside the grid
Keys == 0 .. (rows * columns)

Next ==
    \/ SetupButtonsStep
    \/ \E key \in Keys : KeyChange(key, TRUE)
    \/ \E key \in {0, rows * columns} : KeyChange(key, FALSE)
    \/ \E w \in BagToSet(workers), outcome \in Outcomes : WorkerRun(w, outcome)
    \/ \E cfg \in Configs, files \in ChangedSets : ConfigChanged(cfg, files)

Spec == Init /\ [][Next]_vars

(***************************************************************************)
(* The ButtonManager used directly: any sequence of its operations, with   *)
(* presses handled and workers run as the controller does.                 *)
(***************************************************************************)
\* ButtonManager.set_selected_button(index)
Select(index) ==
    /\ \E g \in {SetSelectedButton(Grid, index)} : Install(g)
    /\ UNCHANGED <<config, phase, done, ex, disk, file_times, watch, watcher>>

\* ButtonManager.setup_fixed_buttons(side, buttons_config, computer)
SetupFixed(side, defs, computer) ==
    /\ \E g \in {SetupFixedButtons(Grid, side, defs, computer)} : Install(g)
    /\ UNCHANGED <<config, phase, done, ex, disk, file_times, watch, watcher>>

\* ButtonManager.setup_center_buttons(buttons_config, mode)
SetupCenter(defs, mode) ==
    /\ \E g \in {SetupCenterButtons(Grid, defs, mode)} : Install(g)
    /\ UNCHANGED <<config, phase, done, ex, disk, file_times, watch, watcher>>

SelectInputs == {<<>>, <<0>>, <<1>>, <<4>>, <<5>>, <<rows * columns>>}
FixedInputs == {<<"left", CfgA.left.buttons, "laptop">>,
                <<"right", CfgA.right.buttons, "desktop">>,
                <<"right", CfgB.right.buttons, "pc">>}
CenterInputs == {<<TerminalDoc, "terminal">>, <<ForkDoc, "fork">>}

InitApi ==
    /\ Init
    /\ config = CfgA

NextApi ==
    \/ SetupButtonsStep
    \/ \E key \in Keys :
          /\ KeyChange(key, TRUE)
          \* a press starts a worker here only when none is in flight
          /\ workers = EmptyBag \/ BagCardinality(workers') <= BagCardinality(workers)
    \/ \E w \in BagToSet(workers), outcome \in Outcomes : WorkerRun(w, outcome)
    \/ \E index \in SelectInputs : Select(index)
    \/ \E a \in FixedInputs : SetupFixed(a[1], a[2], a[3])
    \/ \E a \in CenterInputs : SetupCenter(a[1], a[2])

SpecApi == InitApi /\ [][NextApi]_vars

(***************************************************************************)
(* config_loader.py: ConfigLoader.__init__ over the files of the directory *)
(***************************************************************************)
OverviewFile == "overview.json"
ModeFiles == <<"terminal-mode.json", "simulator-mode.json", "fork-mode.json">>
ComputersFile == "computers.json"
LoaderFiles == {OverviewFile, ComputersFile} \cup {ModeFiles[n] : n \in DOMAIN ModeFiles}
\* a document is valid JSON, or valid JSON without a "mode" name, or text
\* that json.load rejects
LoaderContents == {"valid", "nameless", "malformed"}

\* _load_json: the document, or the exception it raises
LoadJson(d, filename) ==
    IF filename \notin DOMAIN d THEN "FileNotFoundError"
    ELSE IF d[filename].content = "malformed" THEN "JSONDecodeError"
    ELSE d[filename].content

\* _load_modes: FileNotFoundError is the only exception caught, per file
RECURSIVE LoadModes(_, _, _)
LoadModes(d, n, modes) ==
    IF n > Len(ModeFiles) THEN [error |-> None, modes |-> modes]
    ELSE LET doc == LoadJson(d, ModeFiles[n])
         IN IF doc = "FileNotFoundError" THEN LoadModes(d, n + 1, modes)
            ELSE IF doc = "JSONDecodeError" THEN [error |-> doc, modes |-> modes]
            ELSE IF doc = "nameless" THEN LoadModes(d, n + 1, modes)
            ELSE LoadModes(d, n + 1, modes \cup {ModeFiles[n]})

\* _load_computers: a missing file gives {}
LoadComputers(d) ==
    IF LoadJson(d, ComputersFile) = "JSONDecodeError" THEN "JSONDecodeError" ELSE None

\* ConfigLoader.__init__: the overview, then the modes, then the computers
ConfigLoader(d) ==
    IF LoadJson(d, OverviewFile) \in {"FileNotFoundError", "JSONDecodeError"}
    THEN [error |-> LoadJson(d, OverviewFile), modes |-> {}]
    ELSE LET m == LoadModes(d, 1, {})
         IN IF m.error # None THEN [error |-> m.error, modes |-> {}]
            ELSE [error |-> LoadComputers(d), modes |-> m.modes]

\* StreamDeckController.__init__ constructs the loader first: an exception
\* of the loader ends the start
LoadConfig ==
    /\ phase = "starting"
    /\ \E c \in {ConfigLoader(disk)} :
          /\ phase' = IF c.error = None THEN "constructed" ELSE "failed"
          /\ ex' = [op |-> "loaded", error |-> c.error, modes |-> c.modes]
    /\ UNCHANGED <<rows, columns, buttons, current_mode, current_computer,
                   selected_button, config, workers, detached, done,
                   disk, file_times, watch, watcher>>

\* a file of the directory is removed before the start
RemoveFile(f) ==
    /\ phase = "starting" /\ f \in DOMAIN disk
    /\ disk' = [g \in (DOMAIN disk) \ {f} |-> disk[g]]
    /\ file_times' = FileTimes(disk')
    /\ UNCHANGED <<rows, columns, buttons, current_mode, current_computer,
                   selected_button, config, workers, detached, done,
                   phase, ex, watch, watcher>>

InitLoad ==
    /\ rows = DefaultRows /\ columns = DefaultColumns /\ config = CfgA
    /\ \E g \in {NewButtonManager(rows, columns)} :
       /\ buttons = g.buttons
       /\ selected_button = g.selected_button
       /\ current_mode = g.current_mode
       /\ current_computer = g.current_computer
    /\ phase = "starting"
    /\ workers = EmptyBag /\ detached = <<>> /\ done = NotDone
    /\ disk \in [LoaderFiles -> {File(1, c) : c \in LoaderContents}]
    /\ file_times = FileTimes(disk)
    /\ watch = WatchIdle /\ watcher = NewWatcher /\ ex = ExecIdle
NextLoad == LoadConfig \/ \E f \in LoaderFiles : RemoveFile(f)
SpecLoad == InitLoad /\ [][NextLoad]_vars

(***************************************************************************)
(* The device events one by one: what the callback did for the last event  *)
(* is kept in ex (what press_button returned, the action it executed       *)
(* inline before returning, whether it started a worker).                  *)
(***************************************************************************)
\* a faulty variant: the action of a mode switch is not executed by the callback
InlineActionNone(button, cfg) == None

\* the action a mode-switch press executes inline: `if button.action:`, and
\* get_computer_config(button.computer) raises for an unknown key
InlineAction(button, cfg) ==
    IF button.action # None /\ ComputerKnown(cfg, button.computer)
    THEN button.action ELSE None

KeyEvent(key, pressed) ==
    /\ HandleKey(key, pressed)
    /\ ex' = [op |-> "event", key |-> key, pressed |-> pressed,
              returned |-> IF IsRelease(pressed) THEN "not called"
                           ELSE IF key \in DOMAIN buttons THEN "button" ELSE "none",
              inline |-> IF ~IsRelease(pressed) /\ key \in DOMAIN buttons
                            /\ IsModeSwitch(buttons[key])
                         THEN InlineAction(buttons[key], config) ELSE None,
              started |-> BagCardinality(workers') > BagCardinality(workers)]
    /\ UNCHANGED <<config, phase, done, disk, file_times, watch, watcher>>

NextEvents ==
    \/ SetupButtonsStep
    \/ \E key \in Keys, pressed \in BOOLEAN : KeyEvent(key, pressed)
    \/ \E w \in BagToSet(workers), outcome \in Outcomes : WorkerRun(w, outcome)

SpecEvents == Init /\ [][NextEvents]_vars

(***************************************************************************)
(* Repeated presses: the device's reader thread calls the callback again   *)
(* while the threads of earlier presses are still running.                 *)
(***************************************************************************)
MaxInFlight == MaxWorkers + 1

RepeatedKeyChange(key) ==
    /\ HandleKeyUpTo(key, TRUE, MaxInFlight)
    /\ UNCHANGED <<config, phase, done, ex, disk, file_times, watch, watcher>>

InitRepeat == Init /\ config = CfgA
NextRepeat ==
    \/ SetupButtonsStep
    \/ \E key \in Keys : RepeatedKeyChange(key)
    \/ \E w \in BagToSet(workers), outcome \in Outcomes : WorkerRun(w, outcome)
SpecRepeat == InitRepeat /\ [][NextRepeat]_vars

(***************************************************************************)
(* A reload of the active mode's file next to the press handler.  The      *)
(* watcher thread runs _on_config_changed while the device's reader thread *)
(* runs _key_change_callback, and no lock is taken: the reload is three    *)
(* steps here (the configuration is replaced, the clearing loop, the fill  *)
(* loop) and a press may run between any two of them.                      *)
(***************************************************************************)
\* the terminal document after an edit of its first button
TerminalDocEdited == << Def(0, 1, None, "cmd_b") >>
CfgEdited == [CfgA EXCEPT !.modes = [m \in {"terminal", "fork"} |->
                                       IF m = "terminal" THEN TerminalDocEdited
                                       ELSE ForkDoc]]

\* _on_config_changed up to _update_center_buttons' get_mode_buttons: the
\* configuration is replaced, the mode is read and its definitions fetched
ReloadStart(cfg) ==
    /\ phase = "running"
    /\ watch.op # "reload"
    /\ config' = cfg
    /\ watch' = IF ModeKnown(cfg, current_mode)
                THEN [op |-> "reload", at |-> "clear", before |-> config,
                      mode |-> current_mode,
                      defs |-> GetModeButtons(cfg, current_mode)]
                ELSE WatchIdle
    /\ UNCHANGED <<rows, columns, buttons, current_mode, current_computer,
                   selected_button, workers, detached, phase, done, ex, disk,
                   file_times, watcher>>

\* the clearing loop of setup_center_buttons
ReloadClear ==
    /\ watch.op = "reload" /\ watch.at = "clear"
    /\ \E g \in {ClearCenterFrom(Grid, 0)} : Install(g)
    /\ watch' = [watch EXCEPT !.at = "fill"]
    /\ UNCHANGED <<config, phase, done, ex, disk, file_times, watcher>>

\* the fill loop of setup_center_buttons, with the definitions and the mode
\* the call was given
ReloadFill ==
    /\ watch.op = "reload" /\ watch.at = "fill"
    /\ \E g \in {FillCenterFrom(Grid, watch.defs, watch.mode, 1)} : Install(g)
    /\ watch' = WatchIdle
    /\ UNCHANGED <<config, phase, done, ex, disk, file_times, watcher>>

\* the keys pressed here: the two mode buttons and two center buttons
RaceKeys == {0, 1, 2, 4}

InitRace == Init /\ config = CfgA
NextRace ==
    \/ SetupButtonsStep
    \/ \E key \in RaceKeys, pressed \in BOOLEAN : KeyEvent(key, pressed)
    \/ \E w \in BagToSet(workers), outcome \in Outcomes : WorkerRun(w, outcome)
    \/ \E cfg \in {CfgA, CfgEdited} : ReloadStart(cfg)
    \/ ReloadClear
    \/ ReloadFill
SpecRace == InitRace /\ [][NextRace]_vars

(***************************************************************************)
(* The ButtonManager on grids of any size: its four operations called      *)
(* directly, with definitions placed relative to the size of the grid.     *)
(***************************************************************************)
MaxRows == 2
MaxColumns == 6

\* ButtonManager.press_button(index), also for an index outside the map
Press(index) ==
    /\ IF index \in DOMAIN buttons
       THEN \E g \in {PressButton(Grid, index)} : Install(g)
       ELSE UNCHANGED <<rows, columns, buttons, current_mode, current_computer,
                        selected_button, workers, detached>>
    /\ UNCHANGED <<config, phase, done, ex, disk, file_times, watch, watcher>>

\* fixed definitions for the first and the last column of the grid, a list
\* whose definition names a column in between, and one whose column lies
\* beyond the grid's width
GridFixedInputs ==
    {<<"left", <<Def(0, 0, "terminal", "app_term"), DefNoColumn(0, "fork", None)>>,
       "laptop">>,
     <<"right", <<Def(0, columns - 1, "fork", "app_fork")>>, "desktop">>,
     <<"left", <<Def(0, 2, "fork", "app_fork")>>, "laptop">>,
     <<"right", <<Def(0, columns, "fork", "app_fork")>>, "desktop">>}
\* center definitions for the second and the last but one column
GridCenterInputs ==
    {<<TerminalDoc, "terminal">>,
     << <<Def(0, columns - 2, None, "cmd_b")>>, "fork">>}

InitSizes ==
    /\ rows \in 1 .. MaxRows
    /\ columns \in 1 .. MaxColumns
    /\ config = CfgA
    /\ \E g \in {NewButtonManager(rows, columns)} :
       /\ buttons = g.buttons
       /\ selected_button = g.selected_button
       /\ current_mode = g.current_mode
       /\ current_computer = g.current_computer
    /\ phase = "running"
    /\ workers = EmptyBag /\ detached = <<>> /\ done = NotDone
    /\ disk = InitialDisk /\ file_times = FileTimes(disk)
    /\ watch = WatchIdle /\ watcher = NewWatcher /\ ex = ExecIdle

NextSizes ==
    \/ \E index \in 0 .. (rows * columns) : Press(index)
    \/ \E index \in {<<>>, <<0>>, <<rows * columns - 1>>} : Select(index)
    \/ \E a \in GridFixedInputs : SetupFixed(a[1], a[2], a[3])
    \/ \E a \in GridCenterInputs : SetupCenter(a[1], a[2])

SpecSizes == InitSizes /\ [][NextSizes]_vars

(***************************************************************************)
(* keyboard_parser.py.  A shortcut text is the sequence of its characters; *)
(* words are joined back into strings where the code looks them up.        *)
(***************************************************************************)
MODIFIERS ==
    [cmd |-> "command down", command |-> "command down",
     ctrl |-> "control down", control |-> "control down",
     alt |-> "option down", option |-> "option down", opt |-> "option down",
     shift |-> "shift down", fn |-> "function down"]

SPECIAL_KEYS ==
    [space |-> 49, return |-> 36, enter |-> 36, tab |-> 48, delete |-> 51,
     backspace |-> 51, escape |-> 53, esc |-> 53, up |-> 126, down |-> 125,
     left |-> 123, right |-> 124, home |-> 115, end |-> 119, pageup |-> 116,
     pagedown |-> 121, f1 |-> 122, f2 |-> 120, f3 |-> 99, f4 |-> 118,
     f5 |-> 96, f6 |-> 97, f7 |-> 98, f8 |-> 100, f9 |-> 101, f10 |-> 109,
     f11 |-> 103, f12 |-> 111, f13 |-> 105, f14 |-> 107, f15 |-> 113]

\* (the backslash and the backquote keys are left out of the table)
KEY_CODES ==
    [a |-> 0, s |-> 1, d |-> 2, f |-> 3, h |-> 4, g |-> 5, z |-> 6, x |-> 7,
     c |-> 8, v |-> 9, b |-> 11, q |-> 12, w |-> 13, e |-> 14, r |-> 15,
     y |-> 16, t |-> 17, o |-> 31, u |-> 32, i |-> 34, p |-> 35, l |-> 37,
     j |-> 38, k |-> 40, n |-> 45, m |-> 46]
    @@ ("1" :> 18 @@ "2" :> 19 @@ "3" :> 20 @@ "4" :> 21 @@ "6" :> 22
        @@ "5" :> 23 @@ "=" :> 24 @@ "9" :> 25 @@ "7" :> 26 @@ "-" :> 27
        @@ "8" :> 28 @@ "0" :> 29 @@ "]" :> 30 @@ "[" :> 33 @@ "'" :> 39
        @@ ";" :> 41 @@ "," :> 43 @@ "/" :> 44 @@ "." :> 47)

\* str.lower(), one character at a time
UpperCase ==
    [A |-> "a", B |-> "b", C |-> "c", D |-> "d", E |-> "e", F |-> "f",
     G |-> "g", H |-> "h", I |-> "i", J |-> "j", K |-> "k", L |-> "l",
     M |-> "m", N |-> "n", O |-> "o", P |-> "p", Q |-> "q", R |-> "r",
     S |-> "s", T |-> "t", U |-> "u", V |-> "v", W |-> "w", X |-> "x",
     Y |-> "y", Z |-> "z"]
LowerChar(ch) == IF ch \in DOMAIN UpperCase THEN UpperCase[ch] ELSE ch
Lower(chars) == [n \in 1 .. Len(chars) |-> LowerChar(chars[n])]

Whitespace == {" ", "\t"}
Digits == ("0" :> 0 @@ "1" :> 1 @@ "2" :> 2 @@ "3" :> 3 @@ "4" :> 4
           @@ "5" :> 5 @@ "6" :> 6 @@ "7" :> 7 @@ "8" :> 8 @@ "9" :> 9)

\* the string made of a sequence of characters
RECURSIVE Join(_)
Join(chars) == IF chars = <<>> THEN "" ELSE chars[1] \o Join(Tail(chars))

\* sep.join(words)
RECURSIVE JoinWith(_, _)
JoinWith(words, sep) ==
    IF words = <<>> THEN ""
    ELSE IF Len(words) = 1 THEN words[1]
    ELSE words[1] \o sep \o JoinWith(Tail(words), sep)

\* a faulty variant: str.split(" "), which splits at every single space and
\* keeps the empty strings between them
RECURSIVE SplitAtSpaces(_, _, _)
SplitAtSpaces(chars, word, out) ==
    IF chars = <<>> THEN Append(out, word)
    ELSE IF chars[1] = " " THEN SplitAtSpaces(Tail(chars), <<>>, Append(out, word))
         ELSE SplitAtSpaces(Tail(chars), Append(word, chars[1]), out)

\* str.split(): the maximal runs of non-whitespace characters
RECURSIVE SplitWords(_, _, _)
SplitWords(chars, word, out) ==
    IF chars = <<>> THEN (IF word = <<>> THEN out ELSE Append(out, word))
    ELSE IF chars[1] \in Whitespace
         THEN SplitWords(Tail(chars), <<>>, IF word = <<>> THEN out ELSE Append(out, word))
         ELSE SplitWords(Tail(chars), Append(word, chars[1]), out)

\* str.split('+'): every field between two separators, empty ones included
RECURSIVE SplitPlus(_, _, _)
SplitPlus(chars, field, out) ==
    IF chars = <<>> THEN Append(out, field)
    ELSE IF chars[1] = "+" THEN SplitPlus(Tail(chars), <<>>, Append(out, field))
         ELSE SplitPlus(Tail(chars), Append(field, chars[1]), out)

\* the modifiers of a combination that MODIFIERS knows, in their order
RECURSIVE KnownModifiers(_)
KnownModifiers(mods) ==
    IF mods = <<>> THEN <<>>
    ELSE LET mod == Join(mods[1])
         IN (IF mod \in DOMAIN MODIFIERS THEN <<mod>> ELSE <<>>)
            \o KnownModifiers(Tail(mods))

ParseSingleCombination(combo) ==
    LET parts == LET raw == SplitPlus(combo, <<>>, <<>>)
                 IN [n \in 1 .. Len(raw) |-> Lower(raw[n])]
        modifiers == IF Len(parts) > 1 THEN SubSeq(parts, 1, Len(parts) - 1) ELSE <<>>
    IN [type |-> "keystroke",
        modifiers |-> KnownModifiers(modifiers),
        key |-> parts[Len(parts)]]

RECURSIVE ParseCombinations(_)
ParseCombinations(combinations) ==
    IF combinations = <<>> THEN <<>>
    ELSE <<ParseSingleCombination(combinations[1])>>
         \o ParseCombinations(Tail(combinations))

\* KeyboardShortcutParser.parse
Parse(shortcut) ==
    IF shortcut = <<>> THEN <<>>
    ELSE ParseCombinations(SplitWords(shortcut, <<>>, <<>>))

\* int(key), for the texts the model feeds it: an optional sign and digits
IsInt(key) ==
    LET body == IF key # <<>> /\ key[1] = "-" THEN Tail(key) ELSE key
    IN body # <<>> /\ \A n \in 1 .. Len(body) : body[n] \in DOMAIN Digits
RECURSIVE NatOf(_, _)
NatOf(digits, acc) ==
    IF digits = <<>> THEN acc ELSE NatOf(Tail(digits), 10 * acc + Digits[digits[1]])
IntOf(key) == IF key[1] = "-" THEN 0 - NatOf(Tail(key), 0) ELSE NatOf(key, 0)

ModifierPhrase(mod) == IF mod \in DOMAIN MODIFIERS THEN MODIFIERS[mod] ELSE mod \o " down"
UsingClause(modifiers) ==
    IF modifiers = <<>> THEN ""
    ELSE " using {"
         \o JoinWith([n \in 1 .. Len(modifiers) |-> ModifierPhrase(modifiers[n])], ", ")
         \o "}"

SystemEvents == "tell application \"System Events\" to "
KeyCodeScript(code, using) == SystemEvents \o "key code " \o ToString(code) \o using
KeystrokeScript(key, using) == SystemEvents \o "keystroke \"" \o key \o "\"" \o using

\* a faulty variant: the numeric test comes before the key-code table, so a
\* digit is sent as a raw key code
ToApplescriptNumericFirst(action) ==
    LET key == Join(action.key)
        using == UsingClause(action.modifiers)
    IN IF action.type # "keystroke" THEN ""
       ELSE IF key \in DOMAIN SPECIAL_KEYS THEN KeyCodeScript(SPECIAL_KEYS[key], using)
       ELSE IF IsInt(action.key) THEN KeyCodeScript(IntOf(action.key), using)
       ELSE IF key \in DOMAIN KEY_CODES THEN KeyCodeScript(KEY_CODES[key], using)
       ELSE KeystrokeScript(key, using)

\* KeyboardShortcutParser.to_applescript
ToApplescript(action) ==
    LET key == Join(action.key)
        using == UsingClause(action.modifiers)
    IN IF action.type # "keystroke" THEN ""
       ELSE IF key \in DOMAIN SPECIAL_KEYS THEN KeyCodeScript(SPECIAL_KEYS[key], using)
       ELSE IF key \in DOMAIN KEY_CODES THEN KeyCodeScript(KEY_CODES[key], using)
       ELSE IF Len(action.key) = 1 THEN KeystrokeScript(key, using)
       ELSE IF IsInt(action.key) THEN KeyCodeScript(IntOf(action.key), using)
       ELSE KeystrokeScript(key, using)

(***************************************************************************)
(* The parser on its own: shortcut texts built from words, parsed and then *)
(* rendered event by event.                                                *)
(***************************************************************************)
MaxMods == 2
MaxCombos == 3

ModWords == {<<"C", "m", "d">>, <<"S", "H", "I", "F", "T">>, <<"c", "t", "r", "l">>,
             <<"H", "y", "p", "e", "r">>, <<"f", "n">>}
KeyWords == {<<"N">>, <<"s", "p", "a", "c", "e">>, <<"3", "6">>, <<"a", "b">>, <<>>,
             <<"!">>, <<"5">>, <<"-", "5">>, <<"E", "s", "c">>}

SeqsUpTo(S, n) == UNION {[1 .. m -> S] : m \in 0 .. n}

\* a combination as its words: the modifier tokens and the key token
Combos ==
    {c \in [mods : SeqsUpTo(ModWords, MaxMods), key : KeyWords] :
        c.mods # <<>> \/ c.key # <<>>}
SequenceCombos ==
    {[mods |-> << <<"c", "t", "r", "l">> >>, key |-> <<"N">>],
     [mods |-> << <<"C", "m", "d">>, <<"S", "H", "I", "F", "T">> >>, key |-> <<"N">>],
     [mods |-> <<>>, key |-> <<"3", "6">>]}

\* the text of a sequence of char sequences with a separator between them
RECURSIVE Concat(_, _)
Concat(texts, sep) ==
    IF texts = <<>> THEN <<>>
    ELSE IF Len(texts) = 1 THEN texts[1]
    ELSE texts[1] \o sep \o Concat(Tail(texts), sep)

ComboText(c) == Concat(c.mods \o <<c.key>>, <<"+">>)

\* the shortcut text of the combinations: one space between them, or blanks
\* and tabs around and between them
ShortcutText(cs, pad) ==
    LET texts == [n \in 1 .. Len(cs) |-> ComboText(cs[n])]
    IN IF pad = "tight" THEN Concat(texts, <<" ">>)
       ELSE <<" ">> \o Concat(texts, <<" ", "\t">>) \o <<"\t", " ">>

ParseInput(cs, pad) ==
    [op |-> "input", combos |-> cs, pad |-> pad, shortcut |-> ShortcutText(cs, pad)]
ParseInputs ==
    {ParseInput(cs, pad) :
        cs \in {<<c>> : c \in Combos} \cup SeqsUpTo(SequenceCombos, MaxCombos),
        pad \in {"tight", "padded"}}

\* KeyboardShortcutParser.parse(shortcut)
ParseCall ==
    /\ ex.op = "input"
    /\ ex' = [op |-> "parsed", combos |-> ex.combos, pad |-> ex.pad,
              shortcut |-> ex.shortcut, events |-> Parse(ex.shortcut)]
    /\ UNCHANGED <<gridVars, watchVars>>

\* KeyboardShortcutParser.to_applescript on each event of the parse
RenderCall ==
    /\ ex.op = "parsed"
    /\ ex' = [op |-> "rendered", combos |-> ex.combos, pad |-> ex.pad,
              shortcut |-> ex.shortcut, events |-> ex.events,
              scripts |-> [n \in 1 .. Len(ex.events) |-> ToApplescript(ex.events[n])]]
    /\ UNCHANGED <<gridVars, watchVars>>

InitParse ==
    /\ InitGrid /\ config = CfgA
    /\ disk = InitialDisk /\ file_times = FileTimes(disk)
    /\ watch = WatchIdle /\ watcher = NewWatcher
    /\ ex \in ParseInputs
NextParse == ParseCall \/ RenderCall
SpecParse == InitParse /\ [][NextParse]_vars

(***************************************************************************)
(* command_executor.py.  Every subprocess or HTTP call takes its outcome   *)
(* from an oracle, in the order the calls are made; the trace keeps them.  *)
(***************************************************************************)
MaxCalls == 5
PrimitiveOutcomes == {"ok", "fail", "exc"}
Oracles == [1 .. MaxCalls -> PrimitiveOutcomes]

\* a computer_config argument: None, or a dict
Absent == [present |-> FALSE, dict |-> <<>>]
Identity(d) == [present |-> TRUE, dict |-> d]
DictGet(d, k) == IF k \in DOMAIN d THEN d[k] ELSE None
\* `not s` for an Optional[str]
Falsy(s) == s = None \/ s = ""
\* `not computer_config`
FalsyConfig(cc) == ~cc.present \/ DOMAIN cc.dict = {}

\* what _get_local_hostnames collected on this machine: the fixed names,
\* socket.gethostname() and its short form as reported, the scutil names in
\* lower case, and a bound address
LocalHostnames ==
    {"localhost", "127.0.0.1", "::1", "Studio.local", "Studio", "studio", "192.168.1.5"}
\* str.lower() on the host names in use
HostLower(h) ==
    CASE h = "Studio" -> "studio"
      [] h = "Studio.local" -> "studio.local"
      [] h = "LOCALHOST" -> "localhost"
      [] OTHER -> h

\* _is_local_computer
IsLocalComputer(cc) ==
    IF FalsyConfig(cc) THEN TRUE
    ELSE LET hostname == HostLower(IF "hostname" \in DOMAIN cc.dict
                                   THEN cc.dict.hostname ELSE "")
         IN IF hostname = "" THEN TRUE ELSE hostname \in LocalHostnames

\* a faulty variant: every named computer with an identity is remote
IsRemoteWhenNamed(computer, cc) == ~Falsy(computer) /\ ~FalsyConfig(cc)

\* `computer and computer_config and not self._is_local_computer(...)`
IsRemote(computer, cc) == ~Falsy(computer) /\ ~FalsyConfig(cc) /\ ~IsLocalComputer(cc)

Returned(ret, t) == [ret |-> ret, raised |-> FALSE, trace |-> t]
Raised(t) == [ret |-> FALSE, raised |-> TRUE, trace |-> t]

\* one subprocess.run or urlopen: a non-zero exit status, a URLError or any
\* exception is caught by the caller's try block and makes it return False
Primitive(step, via, payload, o, t) ==
    LET outcome == o[Len(t) + 1]
    IN Returned(outcome = "ok",
                Append(t, [step |-> step, via |-> via, payload |-> payload,
                           outcome |-> outcome]))

\* the command line _execute_remote_command hands to the shell
SshCommand(command, cc) ==
    LET username == IF "username" \in DOMAIN cc.dict THEN cc.dict.username ELSE "ross"
    IN "ssh " \o username \o "@" \o cc.dict.hostname \o " '" \o command \o "'"

\* _execute_remote_command
ExecuteRemoteCommand(step, command, cc, o, t) ==
    IF Falsy(DictGet(cc.dict, "hostname")) THEN Returned(FALSE, t)
    ELSE Primitive(step, "ssh", SshCommand(command, cc), o, t)

\* _execute_btt_applescript
ExecuteBttApplescript(step, script, cc, o, t) ==
    IF Falsy(DictGet(cc.dict, "hostname"))
       \/ Falsy(DictGet(cc.dict, "betterTouchToolSharedSecret"))
    THEN Returned(FALSE, t)
    ELSE Primitive(step, "btt", script, o, t)

\* _execute_command
ExecuteCommand(step, command, computer, cc, o, t) ==
    IF Falsy(command) THEN Returned(FALSE, t)
    ELSE IF IsRemote(computer, cc) THEN ExecuteRemoteCommand(step, command, cc, o, t)
    ELSE Primitive(step, "local", command, o, t)

\* _open_app
OpenApp(app_name, computer, cc, o, t) ==
    IF Falsy(app_name) THEN Returned(FALSE, t)
    ELSE ExecuteCommand("open", "open -a '" \o app_name \o "'", computer, cc, o, t)

\* a faulty variant: a remote script always goes through SSH
ExecuteApplescriptOverSsh(step, script, computer, cc, o, t) ==
    IF Falsy(script) THEN Returned(FALSE, t)
    ELSE IF IsRemote(computer, cc) THEN ExecuteRemoteCommand(step, script, cc, o, t)
         ELSE Primitive(step, "local", script, o, t)

\* _execute_applescript
ExecuteApplescript(step, script, computer, cc, o, t) ==
    IF Falsy(script) THEN Returned(FALSE, t)
    ELSE IF IsRemote(computer, cc)
         THEN IF ~Falsy(DictGet(cc.dict, "betterTouchToolSharedSecret"))
              THEN ExecuteBttApplescript(step, script, cc, o, t)
              ELSE ExecuteRemoteCommand(step, script, cc, o, t)
         ELSE Primitive(step, "local", script, o, t)

\* the key_mapping and key_codes dicts local to _send_keystroke
KeyMapping ==
    [cmd |-> "command down", ctrl |-> "control down", alt |-> "option down",
     shift |-> "shift down", return |-> "return", space |-> "space", tab |-> "tab"]
LegacyKeyCodes == [space |-> 49, return |-> 36, tab |-> 48, delete |-> 51, escape |-> 53]
LegacyPhrase(mod) == IF mod \in DOMAIN KeyMapping THEN KeyMapping[mod] ELSE mod \o " down"

\* _send_keystroke: `keys` is a list of words, the last one the main key
SendKeystroke(keys, computer, cc, o, t) ==
    IF keys = <<>> THEN Returned(FALSE, t)
    ELSE LET main_key == keys[Len(keys)]
             modifiers == IF Len(keys) > 1 THEN SubSeq(keys, 1, Len(keys) - 1) ELSE <<>>
             using == IF modifiers = <<>> THEN ""
                      ELSE " using {"
                           \o JoinWith([n \in 1 .. Len(modifiers) |->
                                          LegacyPhrase(modifiers[n])], ", ")
                           \o "}"
             script == IF Len(main_key) # 1 /\ main_key \in DOMAIN LegacyKeyCodes
                       THEN KeyCodeScript(LegacyKeyCodes[main_key], using)
                       ELSE KeystrokeScript(main_key, using)
         IN IF main_key = "" THEN Returned(FALSE, t)
            ELSE ExecuteApplescript("key", script, computer, cc, o, t)

\* a faulty variant: the settle delay is also executed after the last event
RECURSIVE KeystrokeLoopDelayAlways(_, _, _, _, _, _)
KeystrokeLoopDelayAlways(actions, i, computer, cc, o, t) ==
    IF i > Len(actions) THEN Returned(TRUE, t)
    ELSE LET sent == ExecuteApplescript("key", ToApplescript(actions[i]), computer, cc, o, t)
         IN IF ~sent.ret THEN Returned(FALSE, sent.trace)
            ELSE KeystrokeLoopDelayAlways(actions, i + 1, computer, cc, o,
                    ExecuteApplescript("delay", "delay 0.1", computer, cc, o,
                                       sent.trace).trace)

\* the loop of _send_keystroke_from_shortcut over the parsed key events
RECURSIVE KeystrokeLoop(_, _, _, _, _, _)
KeystrokeLoop(actions, i, computer, cc, o, t) ==
    IF i > Len(actions) THEN Returned(TRUE, t)
    ELSE LET script == ToApplescript(actions[i])
         IN IF script = "" THEN KeystrokeLoop(actions, i + 1, computer, cc, o, t)
            ELSE LET sent == ExecuteApplescript("key", script, computer, cc, o, t)
                 IN IF ~sent.ret THEN Returned(FALSE, sent.trace)
                    ELSE IF i < Len(actions)
                         THEN KeystrokeLoop(actions, i + 1, computer, cc, o,
                                ExecuteApplescript("delay", "delay 0.1", computer, cc, o,
                                                   sent.trace).trace)
                         ELSE KeystrokeLoop(actions, i + 1, computer, cc, o, sent.trace)

\* _send_keystroke_from_shortcut
SendKeystrokeFromShortcut(shortcut, computer, cc, o, t) ==
    IF shortcut = <<>> THEN Returned(FALSE, t)
    ELSE LET actions == Parse(shortcut)
         IN IF actions = <<>> THEN Returned(FALSE, t)
            ELSE KeystrokeLoop(actions, 1, computer, cc, o, t)

\* the lines the combined script gets for the parsed key events: a key that is
\* neither special, nor in KEY_CODES, nor one character long gets none
RECURSIVE CombinedLines(_)
CombinedLines(actions) ==
    IF actions = <<>> THEN <<>>
    ELSE LET key == Join(actions[1].key)
             using == UsingClause(actions[1].modifiers)
         IN (IF key \in DOMAIN SPECIAL_KEYS THEN <<KeyCodeScript(SPECIAL_KEYS[key], using)>>
             ELSE IF key \in DOMAIN KEY_CODES THEN <<KeyCodeScript(KEY_CODES[key], using)>>
             ELSE IF Len(actions[1].key) = 1 THEN <<KeystrokeScript(key, using)>>
             ELSE <<>>)
            \o CombinedLines(Tail(actions))

ActivateScript(app_name) == "tell application \"" \o app_name \o "\" to activate"
CombinedScript(app_name, shortcut) ==
    JoinWith(<<ActivateScript(app_name), "delay 0.2">> \o CombinedLines(Parse(shortcut)), "\n")

\* a faulty variant: the result of the activate step is not looked at
SendAppShortcutUnchecked(app_name, shortcut, computer, cc, o, t) ==
    IF Falsy(app_name) \/ shortcut = <<>> THEN Returned(FALSE, t)
    ELSE SendKeystrokeFromShortcut(shortcut, computer, cc, o,
            ExecuteApplescript("delay", "delay 0.2", computer, cc, o,
               ExecuteApplescript("activate", ActivateScript(app_name),
                                  computer, cc, o, t).trace).trace)

\* _send_app_shortcut
SendAppShortcut(app_name, shortcut, computer, cc, o, t) ==
    IF Falsy(app_name) \/ shortcut = <<>> THEN Returned(FALSE, t)
    ELSE IF IsRemote(computer, cc)
            /\ ~Falsy(DictGet(cc.dict, "betterTouchToolSharedSecret"))
    THEN ExecuteApplescript("combined", CombinedScript(app_name, shortcut),
                            computer, cc, o, t)
    ELSE LET activated == ExecuteApplescript("activate", ActivateScript(app_name),
                                             computer, cc, o, t)
         IN IF ~activated.ret THEN Returned(FALSE, activated.trace)
            ELSE SendKeystrokeFromShortcut(shortcut, computer, cc, o,
                    ExecuteApplescript("delay", "delay 0.2", computer, cc, o,
                                       activated.trace).trace)

\* _execute_btt_trigger: computer_config.get is called before the try block, and
\* quoting a missing trigger name raises inside it
ExecuteBttTrigger(trigger_name, cc, o, t) ==
    IF ~cc.present THEN Raised(t)
    ELSE IF Falsy(DictGet(cc.dict, "hostname"))
            \/ Falsy(DictGet(cc.dict, "betterTouchToolSharedSecret"))
    THEN Returned(FALSE, t)
    ELSE IF trigger_name = None THEN Returned(FALSE, t)
    ELSE Primitive("trigger", "btt", trigger_name, o, t)

\* action.get(k) for a text the parser reads; a missing text is as falsy as ""
TextGet(action, k) == IF k \in DOMAIN action THEN action[k] ELSE <<>>

\* execute_action
ExecuteAction(action, computer, cc, o) ==
    LET t == <<>>
        action_type == DictGet(action, "type")
    IN IF DOMAIN action = {} THEN Returned(FALSE, t)
       ELSE IF action_type = "command"
       THEN ExecuteCommand("command", DictGet(action, "command"), computer, cc, o, t)
       ELSE IF action_type = "app"
       THEN OpenApp(DictGet(action, "app"), computer, cc, o, t)
       ELSE IF action_type = "applescript"
       THEN ExecuteApplescript("script", DictGet(action, "script"), computer, cc, o, t)
       ELSE IF action_type = "keystroke"
       THEN IF "command" \in DOMAIN action
            THEN LET app == DictGet(action, "application")
                 IN IF ~Falsy(app) /\ app # "global"
                    THEN SendAppShortcut(app, action.command, computer, cc, o, t)
                    ELSE SendKeystrokeFromShortcut(action.command, computer, cc, o, t)
            ELSE IF "shortcut" \in DOMAIN action
            THEN SendKeystrokeFromShortcut(action.shortcut, computer, cc, o, t)
            ELSE SendKeystroke(TextGet(action, "keys"), computer, cc, o, t)
       ELSE IF action_type = "app_shortcut"
       THEN SendAppShortcut(DictGet(action, "app"), TextGet(action, "shortcut"),
                            computer, cc, o, t)
       ELSE IF action_type = "btt_trigger"
       THEN ExecuteBttTrigger(DictGet(action, "trigger_name"), cc, o, t)
       ELSE Returned(FALSE, t)

\* the shortcut texts of the model
CmdC == <<"C", "m", "d", "+", "C">>
CtrlCTwice == <<"C", "t", "r", "l", "+", "C", " ", "C", "t", "r", "l", "+", "C">>
Blank == <<" ">>
Cmd36 == <<"C", "m", "d", "+", "3", "6">>
ThreeKeys == <<"a", " ", "3", "6", " ", "C", "m", "d", "+", "c">>

ExecActions ==
    << <<>>,
       [type |-> "command", command |-> "ls"],
       [type |-> "command"],
       [type |-> "command", command |-> ""],
       [type |-> "app", app |-> "Terminal"],
       [type |-> "applescript", script |-> "beep"],
       [type |-> "keystroke", command |-> CmdC, application |-> "Safari"],
       [type |-> "keystroke", command |-> CtrlCTwice, application |-> "global"],
       [type |-> "keystroke", command |-> <<>>],
       [type |-> "keystroke", shortcut |-> Blank],
       [type |-> "keystroke", keys |-> <<"cmd", "space">>],
       [type |-> "keystroke"],
       [type |-> "app_shortcut", app |-> "Xcode", shortcut |-> CtrlCTwice],
       [type |-> "btt_trigger", trigger_name |-> "sleep"],
       [type |-> "btt_trigger"],
       [type |-> "reboot"],
       [command |-> "ls"],
       [type |-> "app_shortcut", app |-> "Xcode", shortcut |-> Cmd36],
       [type |-> "keystroke", command |-> ThreeKeys, application |-> "global"],
       [type |-> "app_shortcut", app |-> "Xcode", shortcut |-> Blank] >>

ExecIdentities ==
    << Absent,
       Identity(<<>>),
       Identity([hostname |-> "Studio"]),
       Identity([hostname |-> "desk.local", username |-> "sam"]),
       Identity([hostname |-> "desk.local", betterTouchToolSharedSecret |-> "s3"]),
       Identity([hostname |-> "Studio.local"]),
       Identity([hostname |-> "LOCALHOST", betterTouchToolSharedSecret |-> "s3"]),
       Identity([hostname |-> "192.168.1.5"]) >>

ExecComputers == {None, "desktop"}

\* one call of execute_action, from its arguments to its return or its raise
Execute(a, computer, c, o) ==
    /\ ex.op = "idle"
    /\ \E r \in {ExecuteAction(ExecActions[a], computer, ExecIdentities[c], o)} :
          ex' = [op |-> "returned", action |-> a, computer |-> computer, identity |-> c,
                 ret |-> r.ret, raised |-> r.raised, trace |-> r.trace]
    /\ UNCHANGED <<gridVars, watchVars>>

\* the caller takes the result
ExecuteDone ==
    /\ ex.op = "returned"
    /\ ex' = ExecIdle
    /\ UNCHANGED <<gridVars, watchVars>>

InitExec == Init /\ config = CfgA
NextExec ==
    \/ \E a \in DOMAIN ExecActions, computer \in ExecComputers,
          c \in DOMAIN ExecIdentities, o \in Oracles : Execute(a, computer, c, o)
    \/ ExecuteDone
SpecExec == InitExec /\ [][NextExec]_vars

(***************************************************************************)
(* config_watcher.py.  A poll cycle is one step; modification times are    *)
(* natural numbers.                                                        *)
(***************************************************************************)
MaxMtime == 3

\* what opening and parsing a file does: "valid" parses, "malformed" raises
\* JSONDecodeError, "unreadable" raises OSError, and "undecodable" (bytes that
\* are no text in the platform's encoding) raises UnicodeDecodeError
Contents == {"valid", "malformed", "unreadable", "undecodable"}
CaughtContents == {"malformed", "unreadable"}

SetTime(times, f, mtime) ==
    [g \in (DOMAIN times) \cup {f} |-> IF g = f THEN mtime ELSE times[g]]

\* the orders in which glob can list the files of the directory
Orders(d) ==
    {order \in [1 .. Cardinality(DOMAIN d) -> DOMAIN d] :
        \A m, n \in DOMAIN order : m # n => order[m] # order[n]}

\* _check_for_changes over the listed files, from the i-th on
RECURSIVE CheckFrom(_, _, _, _, _)
CheckFrom(d, order, i, times, changed) ==
    IF i > Len(order) THEN [raised |-> FALSE, times |-> times, changed |-> changed]
    ELSE LET f == order[i]
             current_mtime == d[f].mtime
         IN IF f \notin DOMAIN times
            THEN CheckFrom(d, order, i + 1, SetTime(times, f, current_mtime),
                           changed \cup {f})
            ELSE IF current_mtime > times[f]
            THEN IF d[f].content = "valid"
                 THEN CheckFrom(d, order, i + 1, SetTime(times, f, current_mtime),
                                changed \cup {f})
                 ELSE IF d[f].content \in CaughtContents
                 THEN CheckFrom(d, order, i + 1, SetTime(times, f, current_mtime),
                                changed)
                 ELSE [raised |-> TRUE, times |-> times, changed |-> changed]
            ELSE CheckFrom(d, order, i + 1, SetTime(times, f, current_mtime), changed)

CheckForChanges(d, order, times) == CheckFrom(d, order, 1, times, {})

\* one cycle of _watch_loop: an exception of the check is printed and the cycle
\* reports nothing; otherwise a non-empty set goes to every callback
Poll(order) ==
    /\ \E r \in {CheckForChanges(disk, order, file_times)} :
          /\ file_times' = r.times
          /\ watch' = [op |-> "polled",
                       reported |-> IF r.raised THEN {} ELSE r.changed,
                       calls |-> IF r.raised \/ r.changed = {} THEN 0
                                 ELSE Cardinality(Callbacks),
                       error |-> r.raised]
    /\ UNCHANGED <<disk, watcher, gridVars, execVars>>

PollStep == \E order \in Orders(disk) : Poll(order)

\* an editor saves a tracked file, with a newer modification time
WriteFile(f, content) ==
    /\ f \in DOMAIN disk
    /\ disk[f].mtime < MaxMtime
    /\ disk' = [disk EXCEPT ![f] = File(disk[f].mtime + 1, content)]
    /\ UNCHANGED <<file_times, watch, watcher, gridVars, execVars>>

\* a file the directory did not hold appears
CreateFile(f, content) ==
    /\ f \notin DOMAIN disk
    /\ disk' = [g \in (DOMAIN disk) \cup {f} |-> IF g = f THEN File(1, content) ELSE disk[g]]
    /\ UNCHANGED <<file_times, watch, watcher, gridVars, execVars>>

NewFiles == {"terminal-mode.json"}

InitWatch == Init /\ config = CfgA
NextWatch ==
    \/ PollStep
    \/ \E f \in DOMAIN disk, content \in Contents : WriteFile(f, content)
    \/ \E f \in NewFiles, content \in Contents : CreateFile(f, content)
SpecWatch == InitWatch /\ [][NextWatch]_vars

(***************************************************************************)
(* config_watcher.py: start, stop, the callback registry and the poll      *)
(* loops.  A loop is a thread inside _watch_loop; each of its cycles is    *)
(* one step, and it leaves when it finds _running false.                   *)
(***************************************************************************)
MaxLoops == 2

\* a faulty variant: start without the `if self._running: return` guard
StartAlways(w) == [w EXCEPT !.running = TRUE, !.thread = <<"loop">>, !.loops = @ + 1]

\* ConfigWatcher.start
StartWatcher(w) ==
    IF w.running THEN w
    ELSE [w EXCEPT !.running = TRUE, !.thread = <<"loop">>, !.loops = @ + 1]

\* a faulty variant: stop that joins without clearing _running
StopKeepsRunning(w) == w

\* ConfigWatcher.stop: the join waits one second at most and changes nothing
StopWatcher(w) == [w EXCEPT !.running = FALSE]

\* a faulty variant: the first callback that raises ends the dispatch
RECURSIVE DispatchUntilRaise(_, _, _, _, _)
DispatchUntilRaise(order, i, changed, raising, invoked) ==
    IF i > Len(order) THEN invoked
    ELSE IF order[i] \in raising
         THEN Append(invoked, [callback |-> order[i], files |-> changed, raised |-> TRUE])
         ELSE DispatchUntilRaise(order, i + 1, changed, raising,
                 Append(invoked, [callback |-> order[i], files |-> changed,
                                  raised |-> FALSE]))

\* `for callback in self.callbacks.copy()`: each call sits in its own try block,
\* so the loop goes on after a callback that raised
RECURSIVE DispatchFrom(_, _, _, _, _)
DispatchFrom(order, i, changed, raising, invoked) ==
    IF i > Len(order) THEN invoked
    ELSE DispatchFrom(order, i + 1, changed, raising,
            Append(invoked, [callback |-> order[i], files |-> changed,
                             raised |-> order[i] \in raising]))

\* the orders in which the copy of the callback set can be iterated
CallbackOrders(cbs) ==
    {order \in [1 .. Cardinality(cbs) -> cbs] :
        \A m, n \in DOMAIN order : m # n => order[m] # order[n]}

LifeSame == UNCHANGED <<disk, gridVars, execVars>>

Start ==
    /\ watcher.running \/ watcher.loops < MaxLoops
    /\ watcher' = StartWatcher(watcher)
    /\ watch' = [op |-> "start", was_running |-> watcher.running]
    /\ file_times' = file_times
    /\ LifeSame

Stop ==
    /\ watcher' = StopWatcher(watcher)
    /\ watch' = [op |-> "stop", was_running |-> watcher.running]
    /\ file_times' = file_times
    /\ LifeSame

\* add_callback / remove_callback: set.add and set.discard
AddCallback(cb) ==
    /\ watcher' = [watcher EXCEPT !.callbacks = @ \cup {cb}]
    /\ UNCHANGED <<watch, file_times>>
    /\ LifeSame

RemoveCallback(cb) ==
    /\ watcher' = [watcher EXCEPT !.callbacks = @ \ {cb}]
    /\ UNCHANGED <<watch, file_times>>
    /\ LifeSame

\* one cycle of a live loop that found _running true; the callbacks in
\* `raising` raise an Exception when called
LoopCycle(order, cbOrder, raising) ==
    /\ watcher.loops > 0
    /\ watcher.running
    /\ \E r \in {CheckForChanges(disk, order, file_times)} :
          /\ file_times' = r.times
          /\ \E invoked \in {IF r.raised \/ r.changed = {} THEN <<>>
                             ELSE DispatchFrom(cbOrder, 1, r.changed, raising, <<>>)} :
                watch' = [op |-> "polled",
                          reported |-> IF r.raised THEN {} ELSE r.changed,
                          calls |-> Len(invoked),
                          error |-> r.raised,
                          invoked |-> invoked,
                          registered |-> watcher.callbacks]
    /\ watcher' = watcher
    /\ LifeSame

\* a live loop finds _running false and returns
LoopExit ==
    /\ watcher.loops > 0
    /\ ~watcher.running
    /\ watcher' = [watcher EXCEPT !.loops = @ - 1]
    /\ watch' = [op |-> "exit"]
    /\ file_times' = file_times
    /\ LifeSame

TestCallbacks == {"probe"}
LifeContents == {"valid", "undecodable"}

InitLife == Init /\ config = CfgA
NextLife ==
    \/ Start
    \/ Stop
    \/ \E cb \in TestCallbacks : AddCallback(cb)
    \/ \E cb \in TestCallbacks \cup Callbacks : RemoveCallback(cb)
    \/ \E order \in Orders(disk), cbOrder \in CallbackOrders(watcher.callbacks),
          raising \in SUBSET watcher.callbacks : LoopCycle(order, cbOrder, raising)
    \/ LoopExit
    \/ \E content \in LifeContents : WriteFile("overview.json", content)
SpecLife == InitLife /\ [][NextLife]_vars

\* the loop is a started thread: it is scheduled again after its sleep, so a
\* loop that can return (it finds _running false) does return
SpecLifeFair == SpecLife /\ WF_vars(LoopExit)

(***************************************************************************)
(* Properties of the grid and the controller                               *)
(***************************************************************************)
WorkerStep == \E w \in BagToSet(workers), outcome \in Outcomes : WorkerRun(w, outcome)
ReloadStep == \E cfg \in Configs, files \in ChangedSets : ConfigChanged(cfg, files)

\* the columns the specification calls fixed, for the grid's own width
InFixedColumn(b) == b.column = 0 \/ b.column = columns - 1

\* C1: at most one button of the map is selected, and select(i) issued while
\* another button j is selected puts j back to normal in its first half,
\* when i is not yet selected, and leaves i selected and j normal.
C1_OneSelected ==
    /\ Cardinality(SelectedIndices(buttons)) <= 1
    /\ \A i \in DOMAIN buttons : \A j \in SelectedIndices(buttons) \ {i} :
          LET mid == ClearPreviousSelection(Grid)
              fin == SetSelectedButton(Grid, <<i>>)
          IN /\ mid.buttons[j].state = NORMAL
             /\ mid.buttons[i].state # SELECTED
             /\ fin.buttons[j].state = NORMAL
             /\ fin.buttons[i].state = SELECTED

\* a center button is the selected one (only a direct select does that),
\* while the fixed button the setup had selected is back to normal
C1_Witness ==
    /\ phase = "running"
    /\ selected_button = <<1>>
    /\ buttons[1].state = SELECTED
    /\ buttons[0].mode = "terminal" /\ buttons[0].state = NORMAL
    /\ current_mode = "terminal" /\ current_computer = "laptop"

\* C2 (as claimed): whenever a button is selected it lies in column 0 or
\* column columns-1, its mode is the current mode, and the computer its side
\* was set up with is the current computer.
C2_SelectionMatchesSession ==
    \A i \in SelectedIndices(buttons) :
       /\ InFixedColumn(buttons[i])
       /\ buttons[i].mode = current_mode
       /\ buttons[i].computer = current_computer

\* C3 (as claimed): a press of a fixed-column button with a mode tag makes its
\* mode the current mode, the computer its side was set up with the current
\* computer, and the button the selected one.
C3_PressCommitsSwitch ==
    [][\A key \in DOMAIN buttons :
          (KeyChange(key, TRUE) /\ InFixedColumn(buttons[key]) /\ buttons[key].mode # None)
          => /\ current_mode' = buttons[key].mode
             /\ current_computer' = buttons[key].computer
             /\ selected_button' = <<key>>
             /\ buttons'[key].state = SELECTED]_vars

\* C4: a press of a center-column button, or of a fixed-column button without
\* a mode tag, leaves the mode, the computer and the selected index as they
\* were, and the button at the selected index in the visual state it had.
C4_CenterPressKeepsSession ==
    [][\/ /\ current_mode' = current_mode
          /\ current_computer' = current_computer
          /\ selected_button' = selected_button
          /\ \/ selected_button = <<>>
             \/ selected_button[1] \notin DOMAIN buttons
             \/ /\ selected_button[1] \in DOMAIN buttons'
                /\ buttons'[selected_button[1]].state = buttons[selected_button[1]].state
       \/ \A key \in DOMAIN buttons :
             (~InFixedColumn(buttons[key]) \/ buttons[key].mode = None)
             => ~KeyChange(key, TRUE)]_vars

\* a center button was pressed (its worker is in flight) under a selection
C4_Witness ==
    /\ SelectedIndices(buttons) # {}
    /\ \E w \in BagToSet(workers) :
          /\ w.ref = 0
          /\ buttons[w.key].column \in CenterFirst .. CenterLast
          /\ buttons[w.key].state = PRESSED

\* C7: every worker in flight executes, whenever it runs, the (computer,
\* action) pair that was current when its press was handled.
C7_WorkerKeepsSnapshot ==
    \A w \in BagToSet(workers) : WorkerExecPair(w) = w.snap

\* a worker is in flight after a later press has switched the computer and a
\* rebuild has replaced the button it was started for
C7_Witness ==
    \E w \in BagToSet(workers) :
       /\ w.computer # current_computer
       /\ w.ref # 0
       /\ buttons[w.key].action # w.action

\* C8 (as claimed): a step of a worker or of the reload callback leaves the
\* button map and the selection as they were.
C8_OnlyPressPathWrites ==
    [][(WorkerStep \/ ReloadStep) => UNCHANGED <<buttons, selected_button>>]_vars

\* C9: a worker that has ended has left its button object normal and let
\* nothing escape, whatever execute_action did; and every button shown
\* pressed is held by a worker in flight, which will restore it when it ends.
C9_WorkerRestores ==
    /\ done.ended => (done.state = NORMAL /\ ~done.escaped)
    /\ \A i \in DOMAIN buttons :
          buttons[i].state = PRESSED
          => \E w \in BagToSet(workers) : w.ref = 0 /\ w.key = i
    /\ \A d \in DOMAIN detached : d \in LiveRefs(workers)

\* a worker whose action raised has ended
C9_Witness == done.ended /\ done.raised /\ done.state = NORMAL

(***************************************************************************)
(* Properties of the action router                                         *)
(***************************************************************************)
ExecutedAction == ExecActions[ex.action]

\* C5 (as claimed): execute_action returns a Boolean and never raises,
\* whatever the action type and the identity, absent included; it returns
\* false for an unknown type, for a command action without a command or with
\* an empty one, and for a keystroke action whose shortcut is empty.
C5_ExecuteNeverRaises ==
    ex.op = "returned" =>
       /\ ~ex.raised
       /\ ex.ret \in BOOLEAN
       /\ DictGet(ExecutedAction, "type")
            \notin {"command", "app", "applescript", "keystroke", "app_shortcut",
                    "btt_trigger"} => ~ex.ret
       /\ (DictGet(ExecutedAction, "type") = "command"
           /\ Falsy(DictGet(ExecutedAction, "command"))) => ~ex.ret
       /\ (DictGet(ExecutedAction, "type") = "keystroke"
           /\ "command" \in DOMAIN ExecutedAction
           /\ ExecutedAction.command = <<>>) => ~ex.ret

\* C6 (as claimed): the steps of one action run in sequence, and a step that
\* fails, a settle delay included, is the last step taken, the action then
\* returning false.
C6_FirstFailureAborts ==
    ex.op = "returned" =>
       \A n \in DOMAIN ex.trace :
          ex.trace[n].outcome # "ok" => (n = Len(ex.trace) /\ ~ex.ret)

(***************************************************************************)
(* Properties of the watcher                                               *)
(***************************************************************************)
Newer(f) == f \in DOMAIN disk /\ f \in DOMAIN file_times /\ disk[f].mtime > file_times[f]

\* C10 (as claimed): a poll cycle that finds a tracked file with a newer
\* modification time and content that does not parse records the new time and
\* does not report the file; a file whose time is not newer than the recorded
\* one is not reported; and a tracked file with a newer time and valid content
\* is reported to the callbacks by that cycle, which records its time.
C10_InvalidChangeSwallowed ==
    [][PollStep =>
         \A f \in DOMAIN file_times :
            /\ (Newer(f) /\ disk[f].content # "valid")
               => (file_times'[f] = disk[f].mtime /\ f \notin watch'.reported)
            /\ (f \in DOMAIN disk /\ ~Newer(f)) => f \notin watch'.reported
            /\ (Newer(f) /\ disk[f].content = "valid")
               => (file_times'[f] = disk[f].mtime /\ f \in watch'.reported
                   /\ watch'.calls = Cardinality(Callbacks))]_vars

\* C11: start called while the watcher is running starts no loop and leaves
\* the watcher and its recorded times as they were.
C11_StartIdempotent ==
    [][(Start /\ watcher.running) => (watcher' = watcher /\ file_times' = file_times)]_vars

\* start has been called on a running watcher with its one loop alive
C11_Witness ==
    /\ watch.op = "start" /\ watch.was_running
    /\ watcher.running /\ watcher.loops = 1

\* C12: after a cycle that found a non-empty changed set, each registered
\* callback has been called exactly once, with that whole set, whichever of
\* them raised; and the loop that ran the cycle is still alive.
C12_EveryCallbackOnce ==
    (watch.op = "polled" /\ watch.reported # {}) =>
       /\ \A cb \in watch.registered :
             Cardinality({n \in DOMAIN watch.invoked :
                             watch.invoked[n].callback = cb}) = 1
       /\ \A n \in DOMAIN watch.invoked :
             /\ watch.invoked[n].files = watch.reported
             /\ watch.invoked[n].callback \in watch.registered
       /\ watcher.loops >= 1 /\ watcher.running

\* a cycle called two callbacks, the first of which raised
C12_Witness ==
    /\ watch.op = "polled"
    /\ Len(watch.invoked) = 2
    /\ watch.invoked[1].raised
    /\ ~watch.invoked[2].raised

(***************************************************************************)
(* Properties of the shortcut parser                                       *)
(***************************************************************************)
Parsed == ex.op \in {"parsed", "rendered"}

CanonicalModifiers == {"command", "control", "option", "shift", "function"}

\* C14 (as claimed): every modifier of a parsed event is a name of the
\* canonical set {command, control, option, shift, function}, and every
\* modifier token of the combination has one.
C14_ModifiersCanonical ==
    Parsed =>
       \A i \in DOMAIN ex.events :
          /\ \A m \in DOMAIN ex.events[i].modifiers :
                ex.events[i].modifiers[m] \in CanonicalModifiers
          /\ i \in DOMAIN ex.combos
             => Len(ex.events[i].modifiers) = Len(ex.combos[i].mods)

\* the way the key of an event is sent, by the order of the tests
KeyKind(key) ==
    CASE Join(key) \in DOMAIN SPECIAL_KEYS -> "special"
      [] Join(key) \notin DOMAIN SPECIAL_KEYS /\ Len(key) = 1
         /\ Join(key) \in DOMAIN KEY_CODES -> "table"
      [] Join(key) \notin DOMAIN SPECIAL_KEYS /\ Len(key) # 1 /\ IsInt(key) -> "numeric"
      [] OTHER -> "literal"

\* C15: the script of an event sends a named special key by its fixed code,
\* else a single character of the table by its code, else a numeric string
\* as that raw key code, else the key as a literal keystroke (also when it
\* has several characters); the script ends with a modifier clause exactly
\* when the event has modifiers.
C15_KeyResolutionOrder ==
    ex.op = "rendered" =>
       \A i \in DOMAIN ex.scripts :
          LET key == ex.events[i].key
              kind == KeyKind(key)
              command ==
                 CASE kind = "special" -> "key code " \o ToString(SPECIAL_KEYS[Join(key)])
                   [] kind = "table" -> "key code " \o ToString(KEY_CODES[Join(key)])
                   [] kind = "numeric" -> "key code " \o ToString(IntOf(key))
                   [] kind = "literal" -> "keystroke \"" \o Join(key) \o "\""
              clause == UsingClause(ex.events[i].modifiers)
          IN /\ ex.scripts[i] = SystemEvents \o command \o clause
             /\ (clause = "") <=> (ex.events[i].modifiers = <<>>)

\* a digit has been rendered by its table code, with a modifier clause
C15_Witness ==
    /\ ex.op = "rendered"
    /\ \E i \in DOMAIN ex.scripts :
          /\ ex.events[i].key = <<"5">> /\ ex.events[i].modifiers # <<>>
          /\ KeyKind(ex.events[i].key) = "table"

(***************************************************************************)
(* Properties of the action router                                         *)
(***************************************************************************)
HostnameOf(cc) ==
    IF cc.present /\ "hostname" \in DOMAIN cc.dict THEN cc.dict.hostname ELSE ""

\* C16 (as claimed): an identity is local exactly when its hostname is
\* empty, is "localhost" or a loopback address, or is a member of the set of
\* local names and addresses collected at construction (in any letter case).
C16_LocalIffInLocalSet ==
    ex.op = "returned" =>
       LET cc == ExecIdentities[ex.identity]
           hostname == HostnameOf(cc)
       IN IsLocalComputer(cc) <=>
             \/ hostname = ""
             \/ hostname \in LocalHostnames
             \/ HostLower(hostname) \in LocalHostnames

ExecutedIdentity == ExecIdentities[ex.identity]
ExecutedType == DictGet(ExecutedAction, "type")
HasSecret(cc) == cc.present /\ ~Falsy(DictGet(cc.dict, "betterTouchToolSharedSecret"))

\* the shell command of a command action, or of an app action after its
\* rewrite to an open-app command
ShellCommandOf(action) ==
    IF DictGet(action, "type") = "command" THEN DictGet(action, "command")
    ELSE IF Falsy(DictGet(action, "app")) THEN None
    ELSE "open -a '" \o action.app \o "'"

C19_NoLocalTrigger ==
    (ex.op = "returned" /\ ExecutedType = "btt_trigger" /\ ~ex.raised) =>
       /\ IsLocalComputer(ExecutedIdentity) => (ex.trace = <<>> /\ ~ex.ret)
       /\ ex.trace # <<>> => ~IsLocalComputer(ExecutedIdentity)

\* C20: an app_shortcut action run step by step (locally or over ssh) first
\* activates the application, then waits the settle delay, then sends the key
\* events (a shortcut that parses to no event gets none, and false); when the
\* activate step fails nothing else is executed and the result is false.
C20_ActivateDelaySend ==
    (/\ ex.op = "returned" /\ ExecutedType = "app_shortcut"
     /\ ~(IsRemote(ex.computer, ExecutedIdentity) /\ HasSecret(ExecutedIdentity))) =>
       /\ ~ex.raised /\ ex.trace # <<>>
       /\ ex.trace[1].step = "activate"
       /\ ex.trace[1].outcome # "ok" => (Len(ex.trace) = 1 /\ ~ex.ret)
       /\ ex.trace[1].outcome = "ok" =>
             /\ Len(ex.trace) >= 2
             /\ ex.trace[2].step = "delay"
             /\ ex.trace[2].payload
                  = (IF ex.trace[2].via = "ssh"
                     THEN SshCommand("delay 0.2", ExecutedIdentity) ELSE "delay 0.2")
             /\ IF Parse(ExecutedAction.shortcut) = <<>>
                THEN Len(ex.trace) = 2 /\ ~ex.ret
                ELSE Len(ex.trace) >= 3 /\ ex.trace[3].step = "key"
             /\ \A n \in 3 .. Len(ex.trace) : ex.trace[n].step \in {"key", "delay"}
       /\ \A n \in DOMAIN ex.trace :
             ex.trace[n].via = (IF IsRemote(ex.computer, ExecutedIdentity)
                                THEN "ssh" ELSE "local")

\* the activate step failed over ssh and nothing followed it
C20_Witness ==
    /\ ex.op = "returned" /\ ExecutedType = "app_shortcut" /\ ~ex.ret
    /\ Len(ex.trace) = 1 /\ ex.trace[1].step = "activate"
    /\ ex.trace[1].via = "ssh" /\ ex.trace[1].outcome = "fail"

\* the script handed to the applescript dispatch, as it shows in a trace entry
Dispatched(entry, script) ==
    entry.payload = (IF entry.via = "ssh" THEN SshCommand(script, ExecutedIdentity)
                     ELSE script)

\* C21 (as claimed): an app_shortcut action for a remote identity with the
\* shared secret makes exactly one call, to the automation server, whose
\* script is the activate line, the delay line and the line of every parsed
\* key event; no step of its own and no ssh call is made.
C21_OneCombinedCall ==
    (/\ ex.op = "returned" /\ ExecutedType = "app_shortcut"
     /\ IsRemote(ex.computer, ExecutedIdentity) /\ HasSecret(ExecutedIdentity)) =>
       LET events == Parse(ExecutedAction.shortcut)
       IN /\ Len(ex.trace) = 1 /\ ex.trace[1].via = "btt"
          /\ ex.trace[1].payload
               = JoinWith(<<ActivateScript(ExecutedAction.app), "delay 0.2">>
                          \o [n \in 1 .. Len(events) |-> ToApplescript(events[n])], "\n")

\* the shortcut text a keystroke action hands to _send_keystroke_from_shortcut
SequenceShortcut ==
    IF "command" \in DOMAIN ExecutedAction THEN ExecutedAction.command
    ELSE ExecutedAction.shortcut
IsKeystrokeSequence ==
    /\ ex.op = "returned" /\ ExecutedType = "keystroke"
    /\ \/ "command" \in DOMAIN ExecutedAction
          /\ DictGet(ExecutedAction, "application") \in {None, "", "global"}
       \/ "command" \notin DOMAIN ExecutedAction /\ "shortcut" \in DOMAIN ExecutedAction

\* C22: a keystroke sequence of k parsed events sends the events in input
\* order through the applescript dispatch with a settle delay between two
\* successive key events: every odd call is the next event and every even
\* call is the delay, and when all key events succeed there are k key calls
\* and k-1 delays, none after the last event.
C22_DelayBetweenEvents ==
    IsKeystrokeSequence =>
       LET events == Parse(SequenceShortcut)
           k == Len(events)
       IN /\ ~ex.raised /\ Len(ex.trace) <= 2 * k
          /\ \A n \in DOMAIN ex.trace :
                IF n % 2 = 1
                THEN /\ ex.trace[n].step = "key"
                     /\ Dispatched(ex.trace[n], ToApplescript(events[(n + 1) \div 2]))
                ELSE /\ ex.trace[n].step = "delay"
                     /\ Dispatched(ex.trace[n], "delay 0.1")
          /\ (\A n \in DOMAIN ex.trace : ex.trace[n].step = "key" => ex.trace[n].outcome = "ok")
             => (k > 0 => (ex.ret /\ Len(ex.trace) = 2 * k - 1))
          /\ ex.ret => (k > 0 /\ Len(ex.trace) = 2 * k - 1)

\* three events have been sent with two delays between them
C22_Witness ==
    /\ IsKeystrokeSequence /\ ex.ret
    /\ Len(Parse(SequenceShortcut)) = 3 /\ Len(ex.trace) = 5
    /\ ex.trace[5].step = "key" /\ ex.trace[4].step = "delay"

(***************************************************************************)
(* Properties of the ButtonManager on grids of any size                    *)
(***************************************************************************)
ColumnOf(index) == index % columns
Changed(index) ==
    index \notin DOMAIN buttons \/ index \notin DOMAIN buttons'
    \/ buttons'[index] # buttons[index]

\* C23 (as claimed): on every grid the button map holds exactly the keys
\* 0 .. rows*columns-1, at construction and after every operation.
C23_MapHasAllKeys == DOMAIN buttons = 0 .. (rows * columns - 1)

\* C24 (as claimed): setup_fixed writes only buttons of column 0 for the
\* left side and only buttons of the last column for the right side, each
\* tagged with the computer given.
C24_FixedWritesItsColumn ==
    [][\A a \in GridFixedInputs :
          SetupFixed(a[1], a[2], a[3]) =>
             /\ DOMAIN buttons' = DOMAIN buttons
             /\ \A index \in DOMAIN buttons :
                   Changed(index) =>
                      /\ ColumnOf(index) = (IF a[1] = "left" THEN 0 ELSE columns - 1)
                      /\ buttons'[index].computer = a[3]]_vars

\* C25 (as claimed): setup_center leaves every button of the first and the
\* last column as it was and leaves every button of the columns between
\* them either empty or populated, with the mode given, from a definition
\* that names its position.
C25_CenterResetAndFrame ==
    [][\A a \in GridCenterInputs :
          SetupCenter(a[1], a[2]) =>
             /\ DOMAIN buttons' = DOMAIN buttons
             /\ \A index \in DOMAIN buttons :
                   IF ColumnOf(index) \in {0, columns - 1}
                   THEN ~Changed(index)
                   ELSE \/ buttons'[index]
                             = Button(index, index \div columns, ColumnOf(index),
                                      None, None, None)
                        \/ \E k \in DOMAIN a[1] :
                              /\ HasPosition(a[1][k])
                              /\ a[1][k].position.row = index \div columns
                              /\ a[1][k].position.column = ColumnOf(index)
                              /\ buttons'[index].mode = a[2]
                              /\ buttons'[index].action = a[1][k].action]_vars

\* C26 (as claimed): on every grid a press of a mode-tagged button of column
\* 0 or of the last column commits the mode switch, and setup_center
\* populates a definition that names a column between them.
C26_FixedAndCenterByWidth ==
    [][/\ \A index \in DOMAIN buttons :
             (/\ Press(index) /\ buttons[index].mode # None
              /\ buttons[index].column \in {0, columns - 1})
             => (current_mode' = buttons[index].mode /\ selected_button' = <<index>>)
       /\ \A a \in GridCenterInputs :
             SetupCenter(a[1], a[2]) =>
                \A k \in DOMAIN a[1] :
                   (/\ HasPosition(a[1][k]) /\ a[1][k].position.row \in 0 .. rows - 1
                    /\ a[1][k].position.column \in 1 .. columns - 2)
                   => LET index == PositionToIndex(a[1][k].position.row,
                                                   a[1][k].position.column, columns)
                      IN /\ index \in DOMAIN buttons'
                         /\ buttons'[index].mode = a[2]]_vars

(***************************************************************************)
(* Properties of the device events                                         *)
(***************************************************************************)
\* the step has left the event (key, pressed) in the log
LoggedEvent(key, pressed) ==
    ex'.op = "event" /\ ex'.key = key /\ ex'.pressed = pressed

C28_CenterRebuiltOnSwitch ==
    [][\A key \in DOMAIN buttons :
          (IsModeSwitch(buttons[key]) /\ LoggedEvent(key, TRUE) /\ KeyEvent(key, TRUE))
          => \A i \in DOMAIN buttons' :
                buttons'[i].column \in 1 .. (columns - 2)
                => buttons'[i].mode \in {None, current_mode'}]_vars

\* C30: the handler of a press of an action button that is no mode switch
\* returns with the action handed to a worker of its own, still in flight
\* and not executed by the handler; the handler of a mode-switch press has
\* executed the action of the button itself before it returns and starts no
\* worker.
C30_WorkerOrInline ==
    [][\A key \in DOMAIN buttons :
          (LoggedEvent(key, TRUE) /\ KeyEvent(key, TRUE)) =>
             IF IsModeSwitch(buttons[key])
             THEN /\ ~ex'.started
                  /\ BagCardinality(workers') = BagCardinality(workers)
                  /\ (buttons[key].action # None
                      /\ buttons[key].computer \in DOMAIN config.computers)
                     => ex'.inline = buttons[key].action
             ELSE /\ ex'.inline = None
                  /\ (buttons[key].action # None
                      /\ current_computer \in DOMAIN config.computers)
                     => /\ ex'.started
                        /\ \E w \in BagToSet(workers') :
                              /\ w.key = key /\ w.action = buttons[key].action
                              /\ BagCardinality(workers') = BagCardinality(workers) + 1]_vars

\* a mode-switch press has been handled, its action executed inline, while
\* the worker of an earlier press is still in flight
C30_Witness ==
    /\ ex.op = "event" /\ ex.pressed /\ ex.returned = "button"
    /\ ex.inline # None /\ ~ex.started
    /\ \E w \in BagToSet(workers) : w.key # ex.key

(***************************************************************************)
(* Properties of the configuration loader                                  *)
(***************************************************************************)
Usable(f) == f \in DOMAIN disk /\ disk[f].content # "malformed"

\* C29 (as claimed): loading fails when the overview document is missing or
\* invalid; with a usable overview (and no invalid computers document) it
\* does not fail, whatever mode documents are missing or invalid, and every
\* valid mode document is loaded.
C29_OnlyOverviewIsFatal ==
    ex.op = "loaded" =>
       /\ ~Usable(OverviewFile) => ex.error # None
       /\ (Usable(OverviewFile) /\ (ComputersFile \in DOMAIN disk => Usable(ComputersFile)))
          => /\ ex.error = None
             /\ ex.modes = {f \in DOMAIN disk :
                               /\ \E n \in DOMAIN ModeFiles : ModeFiles[n] = f
                               /\ disk[f].content = "valid"}

(***************************************************************************)
(* The two paths of _send_app_shortcut                                     *)
(***************************************************************************)
\* the same call made step by step: on this machine, every step succeeding
StepIdentity == Identity([hostname |-> "Studio"])
AllSucceed == [n \in 1 .. MaxCalls |-> "ok"]
StepByStep ==
    SendAppShortcut(ExecutedAction.app, ExecutedAction.shortcut, ex.computer,
                    StepIdentity, AllSucceed, <<>>)
KeySteps(t) == SelectSeq(t, LAMBDA e : e.step = "key")

\* C38 (as claimed): when an app_shortcut went out as one combined script
\* that the server accepted, the script is the activate line, the delay line
\* and, in order, the very key scripts the step-by-step path sends for the
\* same shortcut, and both paths return the same result.
C38_CombinedAgreesWithSteps ==
    (/\ ex.op = "returned" /\ ExecutedType = "app_shortcut"
     /\ Len(ex.trace) = 1 /\ ex.trace[1].step = "combined"
     /\ ex.trace[1].outcome = "ok") =>
       LET keys == KeySteps(StepByStep.trace)
       IN /\ ex.trace[1].payload
               = JoinWith(<<ActivateScript(ExecutedAction.app), "delay 0.2">>
                          \o [n \in 1 .. Len(keys) |-> keys[n].payload], "\n")
          /\ ex.ret = StepByStep.ret

(***************************************************************************)
(* Properties of the watcher's termination and of concurrent loops         *)
(***************************************************************************)
\* C31: after stop with no later start, no poll cycle begins any more and
\* every live loop eventually exits; stop itself returns without waiting for
\* the loop to be gone.
C31_StopEndsLoop ==
    /\ [][(watch.op \in {"stop", "exit"} /\ ~watcher.running) => watch'.op # "polled"]_vars
    /\ [][Stop => (~watcher'.running /\ watcher'.loops = watcher.loops)]_vars
    /\ (watch.op = "stop") ~> (watch.op = "start" \/ watcher.loops = 0)

\* stop has returned while the loop it stopped is still alive
C31_Witness ==
    /\ watch.op = "stop" /\ watch.was_running
    /\ ~watcher.running /\ watcher.loops = 1

\* C34 (as claimed): whatever the interleaving of start, stop and the loops,
\* at most one poll loop is alive.
C34_AtMostOneLoop == watcher.loops <= 1

\* C35 (as claimed): every file a poll cycle reports to the callbacks holds
\* content that parses, whether the file was tracked before or is new.
C35_ReportedFilesParse ==
    [][PollStep => \A f \in watch'.reported : disk[f].content = "valid"]_vars

(***************************************************************************)
(* Properties of the button map's records                                  *)
(***************************************************************************)
\* C32 (as claimed): selected_button names index i exactly when the button
\* stored at i is in state selected.
C32_SelectedIndexMatchesMap ==
    \A i \in DOMAIN buttons : (selected_button = <<i>>) <=> (buttons[i].state = SELECTED)

\* C33 (as claimed): every button stored at index i records index i, row
\* i div columns and column i mod columns.
C33_RecordAgreesWithIndex ==
    \A i \in DOMAIN buttons :
       /\ buttons[i].index = i
       /\ buttons[i].row = i \div columns
       /\ buttons[i].column = i % columns

(***************************************************************************)
(* Properties of presses that overlap workers and reloads                  *)
(***************************************************************************)
\* C36 (as claimed): when a worker finishes while another worker holding the
\* same button object is still in flight, that button is still shown pressed.
C36_PressedUntilLastWorker ==
    [][BagCardinality(workers') < BagCardinality(workers) =>
         \A w \in BagToSet(workers) :
            CopiesIn(w, workers') < CopiesIn(w, workers) =>
               \A v \in BagToSet(workers') :
                  (v.key = w.key /\ v.ref = w.ref)
                  => ObjectState(buttons', detached', v) = PRESSED]_vars

\* the action of the button at key once the center is built wholly from cfg
ActionFrom(cfg, key) == UpdateCenterButtons(Grid, cfg).buttons[key].action

\* C37 (as claimed): a press of a center button of the active mode that runs
\* while that mode's file is being reloaded finds the action of the old
\* definition or that of the new one, and starts a worker when both
\* definitions have an action.
C37_PressSeesOldOrNew ==
    [][\A key \in DOMAIN buttons :
          (/\ LoggedEvent(key, TRUE)
           /\ watch.op = "reload" /\ watch.mode = current_mode
           /\ buttons[key].column \in CenterFirst .. CenterLast
           /\ workers = EmptyBag
           /\ KeyEvent(key, TRUE))
          => /\ buttons[key].action \in {ActionFrom(watch.before, key),
                                          ActionFrom(config, key)}
             /\ (ActionFrom(watch.before, key) # None /\ ActionFrom(config, key) # None)
                => ex'.started]_vars

\* a button without its visual state
Definition(b) == [b EXCEPT !.state = NORMAL]

\* C39 (as claimed): a reload whose changed set holds the active mode's file
\* leaves the center as rebuilt from the new configuration, and a reload
\* whose changed set holds the overview file leaves the fixed columns as
\* rebuilt from the new overview, also when the set holds both files.
C39_BothRebuilds ==
    [][\A cfg \in Configs, files \in ChangedSets :
          (config' = cfg /\ ConfigChanged(cfg, files)) =>
             /\ ModeFile(current_mode) \in files =>
                   \A i \in DOMAIN buttons :
                      buttons[i].column \in CenterFirst .. CenterLast
                      => buttons'[i] = UpdateCenterButtons(Grid, cfg).buttons[i]
             /\ "overview.json" \in files =>
                   \A i \in DOMAIN buttons :
                      buttons[i].column \in FixedColumns
                      => Definition(buttons'[i])
                           = Definition(SetupButtons(Grid, cfg).buttons[i])]_vars

====
